---------------------------- MODULE Spec2Model ----------------------------
(***************************************************************************)
(* A model of the verus-gateway retrieval pipeline: request validation and *)
(* cache keys (internal/domain/file.go), the JSON-RPC client with retries  *)
(* (pkg/verusrpc/client.go), the filesystem and Redis caches               *)
(* (internal/cache), the chain registry (internal/chain/manager.go), the   *)
(* decryptor (internal/crypto/decrypt.go) and the file service             *)
(* (internal/service/file_service.go).                                     *)
(*                                                                         *)
(* Strings are sequences of one-character strings, so that the regular     *)
(* expressions of the validators and the concatenations of CacheKey are    *)
(* computed character by character.                                        *)
(***************************************************************************)
EXTENDS Integers, Sequences, FiniteSets, TLC

VARIABLES
    \* ---- cache-key harness (FileRequest.Validate / FileRequest.CacheKey)
    keyPc,        \* "init" | "done"
    keyReqA,      \* first request
    keyReqB,      \* second request
    keyA,         \* CacheKey of keyReqA once computed
    keyB,         \* CacheKey of keyReqB once computed
    keyErrA,      \* Validate(keyReqA) once computed
    keyErrB       \* Validate(keyReqB) once computed

keyVars == <<keyPc, keyReqA, keyReqB, keyA, keyB, keyErrA, keyErrB>>

VARIABLES
    \* ---- one verusrpc.Client and the Call in progress on it
    rpcPc,          \* "new" | "idle" | "wait" | "do" | "check" | "done"
    rpcMaxRetries,  \* Client.maxRetries
    rpcAttempt,     \* the loop variable attempt of Call
    rpcErr,         \* err of the latest c.call
    rpcLastErr,     \* lastErr of Call
    rpcCtxDone,     \* ctx.Err() != nil
    rpcRet,         \* what Call returned
    requestCount,   \* Client.requestCount
    errorCount,     \* Client.errorCount
    rpcResponses,   \* history: the node's answers to the attempts of this Call
    rpcCalls        \* history: Calls started so far

rpcVars == <<rpcPc, rpcMaxRetries, rpcAttempt, rpcErr, rpcLastErr, rpcCtxDone,
             rpcRet, requestCount, errorCount, rpcResponses, rpcCalls>>

VARIABLES
    \* ---- the cache (internal/cache) and the clock
    cacheCfg,     \* type, ttl, maxSize of the configured cache; hash order of the keys
    cache,        \* the cache's state: files and counters, or the Redis store
    now,          \* the clock, in ticks
    cacheOps,     \* history: operations made so far
    cacheLast,    \* history: the latest cache operation and what it returned
    cacheLive     \* history: per stored key, the arguments of the Set that stored it

cacheVars == <<cacheCfg, cache, now, cacheOps, cacheLast, cacheLive>>

VARIABLES
    \* ---- FileService and the chain registry
    registry,     \* chain.Manager: the chains it holds and the default chain
    svcRequests,  \* history: GetFile requests served so far
    svcLast,      \* history: the latest GetFile, what it returned and what it called
    svcPending,   \* the cache-population goroutines that have not run yet
    svcStored     \* history: the cache-population goroutine that ran in the latest step

svcVars == <<registry, svcRequests, svcLast, svcPending, svcStored>>

VARIABLES
    \* ---- chain.Manager: construction, lookups, HealthCheckAll and /ready
    mgrCfg,       \* cfg.Chains: per configured id whether it is enabled; the default id
    mgrPc,        \* "new" | "up" | "failed"
    manager,      \* what NewManager returned: NilPtr or the registry
    mgrLast,      \* history: the latest GetChain / GetDefaultChain since the latest probe
    hcPc,         \* per chain, the probe goroutine: "probe" | "lock" | "write" | "done"
    hcNode,       \* per chain, the node behind it: "ok" | "fail" | "silent"
    hcErr,        \* per chain, the goroutine's err once HealthCheck returned
    hcInfoOk,     \* history: per chain, whether GetInfo succeeded
    hcCtxDone,    \* the deadline of the health-check context has passed
    hcMu,         \* the mutex guarding results: NilPtr or its holder
    hcResults,    \* the results map of HealthCheckAll
    hcWrites,     \* history: per chain, the writes made to results
    readyPc,      \* "idle" | "waiting" | "answered"
    readyResp,    \* the response of /ready
    readyCount    \* history: /ready requests answered

mgrVars == <<mgrCfg, mgrPc, manager, mgrLast, hcPc, hcNode, hcErr, hcInfoOk, hcCtxDone,
             hcMu, hcResults, hcWrites, readyPc, readyResp, readyCount>>

VARIABLES
    \* ---- one request through the middleware stack of server.setupMiddleware
    httpCfg,      \* whether metrics and CORS are configured
    httpPc,       \* "idle" | "down" | "handler" | "up" | "done"
    httpLevel,    \* the middleware running, counted from the outermost
    httpIn,       \* the X-Request-ID header of the request, "" when absent
    httpCtx,      \* per level, the request id in the context of the request it received
    httpResp,     \* the response: status, headers, body, whether the header is written
    httpPanic,    \* a panic is unwinding the stack
    httpHandler,  \* history: what the handler did
    httpCount     \* history: requests answered

httpVars == <<httpCfg, httpPc, httpLevel, httpIn, httpCtx, httpResp, httpPanic,
              httpHandler, httpCount>>

VARIABLES
    \* ---- the process: main's wait for a signal and its shutdown
    procPc,       \* where main is
    procCfg,      \* the cache type and the chains of the registry
    sigRegistered,\* signal.NotifyContext is in force
    sigDone,      \* ctx.Done() of the signal context is closed
    srvState,     \* "listening" | "failed" | "draining" | "closed"
    srvErr,       \* serverErr holds an error
    srvInflight,  \* requests still being served
    shutCtxDone,  \* shutdownCtx is done
    clientsOpen,  \* chains whose RPC client is not closed yet
    cacheState,   \* "none" | "open" | "closing" | "closed"
    cleanupPc,    \* the cleanup goroutine: "none" | "idle" | "cleaning" | "exited"
    cleanupRuns,  \* history: cleanups started
    procLog       \* history: the shutdown events in the order they happened

procVars == <<procPc, procCfg, sigRegistered, sigDone, srvState, srvErr, srvInflight,
              shutCtxDone, clientsOpen, cacheState, cleanupPc, cleanupRuns, procLog>>

VARIABLES
    \* ---- the process: configuration and exit status
    startCfg,     \* the configuration main loads
    procExit      \* the exit status, -1 while the process runs

startVars == <<startCfg, procExit>>

VARIABLES
    \* ---- verusrpc.Config as handed to NewClient
    rpcCfg        \* history: the configured MaxRetries

rpcCfgVars == <<rpcCfg>>

VARIABLES
    \* ---- FilesystemCache: goroutines inside Get, Set and cleanup on one key
    mu,           \* FilesystemCache.mu: the goroutines holding RLock, the one holding Lock
    lkFiles,      \* the key's .bin file (content, mtime) and .meta file
    lkNow,        \* the clock
    gPc,          \* per Get: "start" | "stat" | "remove" | "read" | "meta" | "done"
    gRes,         \* per Get: what it has read and what it returned
    wPc           \* per writer (Set, cleanup): "start" | "content" | "meta" | "walk" | "done"

lockVars == <<mu, lkFiles, lkNow, gPc, gRes, wPc>>

VARIABLES
    \* ---- verusrpc.Client: the waits between the attempts of a Call
    retryDelay,   \* Client.retryDelay, in milliseconds
    rpcWaits      \* history: the time.After durations this Call has waited out

rpcWaitVars == <<retryDelay, rpcWaits>>

VARIABLES
    \* ---- verusrpc.Client: concurrent attempts and a Stats call
    attemptPc,       \* per caller: "idle" | "running" (inside Client.call)
    attemptsStarted, \* history: attempts started, per caller
    attemptsFailed,  \* history: attempts that returned an error, per caller
    statsPc,         \* Stats: "idle" | "loaded" (requestCount read) | "done"
    stats            \* what Stats has read and returns

concVars == <<attemptPc, attemptsStarted, attemptsFailed, statsPc, stats>>

VARIABLES
    \* ---- Decompressor.decompressGzip: io.Copy from the gzip reader into the limitedWriter
    dzPc,         \* "copy" | "done"
    dzStream,     \* the decompressed stream the reader yields, and whether its checksum is bad
    dzRead,       \* bytes of the stream read so far
    dzOut,        \* the buffer out
    dzN,          \* limitedWriter.N
    dzMaxSize,    \* Decompressor.maxSize
    dzErr         \* what decompressGzip returns: "" while copying, then "nil" or the error

dzVars == <<dzPc, dzStream, dzRead, dzOut, dzN, dzMaxSize, dzErr>>

VARIABLES
    \* ---- main: the outcome of the shutdown
    shutDrained,  \* history: httpServer.Shutdown returned nil before the deadline
    shutReport    \* what main logs after <-shutdownCtx.Done(), "" before

shutVars == <<shutDrained, shutReport>>

VARIABLES
    \* ---- middleware.Timeout as server.setupMiddleware installs it
    tmPc,         \* "load" | "new" | "serving" | "wrapped" | "handler"
    tmCfg,        \* server.read_timeout: seconds as configured, 0 when the key is absent
    tmReadTimeout,\* cfg.Server.ReadTimeout, a time.Duration
    tmTimeout,    \* the time.Duration handed to middleware.Timeout
    tmParentDone, \* r.Context() is done when the request reaches the middleware
    tmCtxErr      \* ctx.Err() of the request's context when the handler begins

tmVars == <<tmPc, tmCfg, tmReadTimeout, tmTimeout, tmParentDone, tmCtxErr>>

VARIABLES
    \* ---- middleware.RateLimiter
    rlCfg,        \* RequestsPerWindow and Window
    visitors,     \* RateLimiter.visitors: per client IP its tokens, lastSeen, lastRefill
    rlNow,        \* the clock
    rlLog         \* history: the requests answered so far: ip, time, status

rlVars == <<rlCfg, visitors, rlNow, rlLog>>

vars == <<keyVars, rpcVars, cacheVars, svcVars, mgrVars, httpVars, procVars, startVars,
          rlVars, rpcCfgVars, lockVars, rpcWaitVars, concVars, dzVars, shutVars, tmVars>>

----------------------------------------------------------------------------
(* Strings *)

Rep(c, n) == [i \in 1..n |-> c]

Digits == {"0", "1", "2", "3", "4", "5", "6", "7", "8", "9"}
LowerAF == {"a", "b", "c", "d", "e", "f"}
UpperAF == {"A", "B", "C", "D", "E", "F"}
Lower == LowerAF \cup {"g", "h", "i", "j", "k", "l", "m", "n", "o", "p", "q",
                       "r", "s", "t", "u", "v", "w", "x", "y", "z"}
Upper == UpperAF \cup {"G", "H", "I", "J", "K", "L", "M", "N", "O", "P", "Q",
                       "R", "S", "T", "U", "V", "W", "X", "Y", "Z"}

AllIn(s, class) == \A i \in 1..Len(s) : s[i] \in class

HasPrefix(s, p) == Len(s) >= Len(p) /\ SubSeq(s, 1, Len(p)) = p

\* strings.Contains(s, sub)
Contains(s, sub) ==
    \E i \in 1..(Len(s) - Len(sub) + 1) : SubSeq(s, i, i + Len(sub) - 1) = sub

EmptyStr == << >>
ZxViews == <<"z", "x", "v", "i", "e", "w", "s">>
EncryptedSuffix == <<":", "e", "n", "c", "r", "y", "p", "t", "e", "d">>

----------------------------------------------------------------------------
(* Domain errors (internal/domain/errors.go) *)

NoError == [Code |-> "", HTTPStatus |-> 0]

NewError(code, httpStatus) == [Code |-> code, HTTPStatus |-> httpStatus]

NewInvalidInputError == NewError("INVALID_INPUT", 400)
NewRPCError == NewError("RPC_ERROR", 502)
NewDecryptionError == NewError("DECRYPTION_FAILED", 500)
NewChainError == NewError("CHAIN_ERROR", 400)
NewDecompressionError == NewError("DECOMPRESSION_FAILED", 500)

----------------------------------------------------------------------------
(* FileRequest.Validate and FileRequest.CacheKey (internal/domain/file.go) *)

TxidLen == 64
ChainIDMaxLen == 32
FilenameMaxLen == 255
EVKMinLen == 95
EVKMaxLen == 500
EVKMinTail == 90

\* domain.FileRequest
MkReq(chain, txid, evk, fname, useCache) ==
    [ChainID |-> chain, TXID |-> txid, EVK |-> evk, Filename |-> fname,
     UseCache |-> useCache]

\* txidPattern  ^[a-fA-F0-9]{64}$
txidPattern(s) == Len(s) = TxidLen /\ AllIn(s, Digits \cup LowerAF \cup UpperAF)

\* evkPattern  ^zxviews[a-zA-Z0-9]{90,}$
evkPattern(s) ==
    /\ HasPrefix(s, ZxViews)
    /\ Len(s) - Len(ZxViews) >= EVKMinTail
    /\ AllIn(SubSeq(s, Len(ZxViews) + 1, Len(s)), Lower \cup Upper \cup Digits)

\* filenamePattern  ^[a-zA-Z0-9._\-() \[\]]+$
filenamePattern(s) ==
    /\ Len(s) >= 1
    /\ AllIn(s, Lower \cup Upper \cup Digits \cup
                {".", "_", "-", "(", ")", " ", "[", "]"})

\* chainIDPattern  ^[a-zA-Z0-9_\-]+$
chainIDPattern(s) ==
    Len(s) >= 1 /\ AllIn(s, Lower \cup Upper \cup Digits \cup {"_", "-"})

\* FileRequest.Validate: the first failing check decides; NoError when all pass.
Validate(r) ==
    IF r.TXID = EmptyStr THEN NewInvalidInputError
    ELSE IF Len(r.TXID) # TxidLen THEN NewInvalidInputError
    ELSE IF ~txidPattern(r.TXID) THEN NewInvalidInputError
    ELSE IF r.ChainID = EmptyStr THEN NewInvalidInputError
    ELSE IF Len(r.ChainID) > ChainIDMaxLen THEN NewInvalidInputError
    ELSE IF ~chainIDPattern(r.ChainID) THEN NewInvalidInputError
    ELSE IF r.Filename # EmptyStr /\ Len(r.Filename) > FilenameMaxLen
        THEN NewInvalidInputError
    ELSE IF r.Filename # EmptyStr /\
            (Contains(r.Filename, <<".", ".">>) \/ Contains(r.Filename, <<"/">>)
             \/ Contains(r.Filename, <<"\\">>))
        THEN NewInvalidInputError
    ELSE IF r.Filename # EmptyStr /\ ~filenamePattern(r.Filename)
        THEN NewInvalidInputError
    ELSE IF r.EVK # EmptyStr /\ (Len(r.EVK) < EVKMinLen \/ Len(r.EVK) > EVKMaxLen)
        THEN NewInvalidInputError
    ELSE IF r.EVK # EmptyStr /\ ~evkPattern(r.EVK) THEN NewInvalidInputError
    ELSE NoError

\* A plausible slip: the ":encrypted" marker is left out.
CacheKeyNoMarker(r) == r.ChainID \o <<":">> \o r.TXID

\* FileRequest.CacheKey
CacheKey(r) ==
    IF r.EVK # EmptyStr
        THEN r.ChainID \o <<":">> \o r.TXID \o EncryptedSuffix
        ELSE r.ChainID \o <<":">> \o r.TXID

----------------------------------------------------------------------------
(* verusrpc.Client (pkg/verusrpc/client.go) *)

DefaultMaxRetries == 3
RPCReservedLo == -32099
RPCReservedHi == -32000
StatusOK == 200

\* Bounds of the client harness.
MaxRetriesCfg == 2      \* Config.MaxRetries ranges over 0..MaxRetriesCfg
MaxCalls == 1           \* Calls made on the client
MaxSizeCfg == 2         \* the cache's MaxSize, in bytes
MaxTtl == 2             \* cache TTLs range over 1..MaxTtl ticks
MaxTime == 2            \* the clock runs from 0 to MaxTime
MaxOps == 3             \* operations made on the cache
MaxRequests == 2        \* GetFile requests served
MaxReady == 1           \* /ready requests answered
MaxHttpRequests == 1    \* requests sent through the middleware stack
MaxInflight == 1        \* requests in flight when the shutdown starts
MaxCleanups == 1        \* runs of the cache's cleanup goroutine
DecompressMaxSize == 3  \* the decompressor's MaxSize, in bytes

NilErr == [type |-> "nil", status |-> 0, code |-> 0]
TransportErr == [type |-> "transport", status |-> 0, code |-> 0]
HTTPErr(st) == [type |-> "http", status |-> st, code |-> 0]
UnmarshalErr == [type |-> "unmarshal", status |-> 0, code |-> 0]
RPCErr(c) == [type |-> "rpc", status |-> 0, code |-> c]

\* What the node can answer to one POST: no answer at all (transport error), or
\* an HTTP status with a body that holds a result, an error object or no JSON.
RPCCodes == {RPCReservedLo - 1, RPCReservedLo, RPCReservedHi, RPCReservedHi + 1}

NodeResponses ==
    {[transport |-> TRUE, status |-> 0, body |-> "none", code |-> 0]}
    \cup {[transport |-> FALSE, status |-> StatusOK, body |-> b, code |-> 0] :
              b \in {"result", "garbage"}}
    \cup {[transport |-> FALSE, status |-> StatusOK, body |-> "error", code |-> c] :
              c \in RPCCodes}
    \cup {[transport |-> FALSE, status |-> 500, body |-> "garbage", code |-> 0],
          [transport |-> FALSE, status |-> 500, body |-> "error", code |-> RPCReservedHi],
          [transport |-> FALSE, status |-> 404, body |-> "error", code |-> RPCReservedLo]}

\* NewClient: a zero MaxRetries is replaced by the default.
NewClientMaxRetries(cfgMaxRetries) ==
    IF cfgMaxRetries = 0 THEN DefaultMaxRetries ELSE cfgMaxRetries

\* Client.call, after the request was sent: the error it returns for a response.
callErr(resp) ==
    IF resp.transport THEN TransportErr
    ELSE IF resp.status # StatusOK THEN HTTPErr(resp.status)
    ELSE IF resp.body = "garbage" THEN UnmarshalErr
    ELSE IF resp.body = "error" THEN RPCErr(resp.code)
    ELSE NilErr

\* Call, lines 132-137: an *RPCError with a code in the reserved band.
IsReserved(err) ==
    err.type = "rpc" /\ err.code >= RPCReservedLo /\ err.code <= RPCReservedHi

\* A plausible slip: the loop bound is exclusive.
LoopContinuesExclusive(attempt, maxRetries) == attempt < maxRetries

\* Call, line 109: the loop condition attempt <= c.maxRetries.
LoopContinues(attempt, maxRetries) == attempt <= maxRetries

NoRet == [kind |-> "none", err |-> NilErr, attempts |-> 0]
RetResult == [kind |-> "result", err |-> NilErr, attempts |-> 0]
RetCtxErr == [kind |-> "ctxErr", err |-> NilErr, attempts |-> 0]
RetErr(e) == [kind |-> "error", err |-> e, attempts |-> 0]
\* fmt.Errorf("rpc call failed after %d attempts: %w", c.maxRetries+1, lastErr)
RetWrapped(n, e) == [kind |-> "wrapped", err |-> e, attempts |-> n]

RpcInit ==
    /\ rpcPc = "new"
    /\ rpcMaxRetries = 0
    /\ rpcAttempt = 0
    /\ rpcErr = NilErr
    /\ rpcLastErr = NilErr
    /\ rpcCtxDone = FALSE
    /\ rpcRet = NoRet
    /\ requestCount = 0
    /\ errorCount = 0
    /\ rpcResponses = << >>
    /\ rpcCalls = 0

\* No client has been configured.
RpcCfgIdle == rpcCfg = [MaxRetries |-> 0]

DefaultRetryDelay == 500

\* Config.RetryDelay as configured, in milliseconds; zero stands for "not set".
RetryDelayCfgs == {0, 100}

\* NewClient: a zero RetryDelay is replaced by the default.
NewClientRetryDelay(cfgRetryDelay) ==
    IF cfgRetryDelay = 0 THEN DefaultRetryDelay ELSE cfgRetryDelay

\* A plausible slip: the same delay before every retry.
BackoffConstant(delay, attempt) == delay

\* Call, line 115: c.retryDelay * time.Duration(attempt)
Backoff(delay, attempt) == delay * attempt

\* No Call is waiting.
RpcWaitIdle == retryDelay = 0 /\ rpcWaits = << >>

NewClient ==
    /\ rpcPc = "new"
    /\ \E cfgMaxRetries \in 0..MaxRetriesCfg :
           /\ rpcCfg' = [MaxRetries |-> cfgMaxRetries]
           /\ rpcMaxRetries' = NewClientMaxRetries(cfgMaxRetries)
    /\ \E cfgRetryDelay \in RetryDelayCfgs :
           retryDelay' = NewClientRetryDelay(cfgRetryDelay)
    /\ UNCHANGED rpcWaits
    /\ rpcPc' = "idle"
    /\ UNCHANGED <<rpcAttempt, rpcErr, rpcLastErr, rpcCtxDone, rpcRet, requestCount,
                   errorCount, rpcResponses, rpcCalls>>

\* Call is entered (from "idle", or again after a finished Call); attempt := 0.
\* The caller's context may already be cancelled.
CallStart ==
    /\ rpcPc \in {"idle", "done"}
    /\ rpcCalls < MaxCalls
    /\ rpcCalls' = rpcCalls + 1
    /\ rpcAttempt' = 0
    /\ rpcErr' = NilErr
    /\ rpcLastErr' = NilErr
    /\ rpcResponses' = << >>
    /\ rpcWaits' = << >>
    /\ UNCHANGED retryDelay
    /\ \E cancelled \in BOOLEAN : rpcCtxDone' = cancelled
    /\ IF LoopContinues(0, rpcMaxRetries)
          THEN rpcPc' = "do" /\ rpcRet' = NoRet
          ELSE rpcPc' = "done" /\ rpcRet' = RetWrapped(rpcMaxRetries + 1, NilErr)
    /\ UNCHANGED <<rpcMaxRetries, requestCount, errorCount>>

\* The caller cancels the context while Call runs.
CancelCtx ==
    /\ rpcPc \in {"wait", "do", "check"}
    /\ ~rpcCtxDone
    /\ rpcCtxDone' = TRUE
    /\ UNCHANGED <<rpcPc, rpcMaxRetries, rpcAttempt, rpcErr, rpcLastErr, rpcRet,
                   requestCount, errorCount, rpcResponses, rpcCalls>>

\* Call, lines 110-117: the wait before a retry. retryDelay is positive, so the
\* timer can only fire while the context is still live.
CallWait ==
    /\ rpcPc = "wait"
    /\ IF rpcCtxDone
          THEN rpcPc' = "done" /\ rpcRet' = RetCtxErr /\ rpcWaits' = rpcWaits
          ELSE /\ rpcPc' = "do" /\ rpcRet' = rpcRet
               /\ rpcWaits' = Append(rpcWaits, Backoff(retryDelay, rpcAttempt))
    /\ UNCHANGED retryDelay
    /\ UNCHANGED <<rpcMaxRetries, rpcAttempt, rpcErr, rpcLastErr, rpcCtxDone,
                   requestCount, errorCount, rpcResponses, rpcCalls>>

\* Client.call: one attempt. With a cancelled context httpClient.Do fails.
CallDo ==
    /\ rpcPc = "do"
    /\ \E resp \in NodeResponses :
           /\ rpcCtxDone => resp.transport
           /\ rpcErr' = callErr(resp)
           /\ rpcResponses' = Append(rpcResponses, resp)
           /\ requestCount' = requestCount + 1
           /\ errorCount' = IF callErr(resp) = NilErr THEN errorCount ELSE errorCount + 1
    /\ rpcPc' = "check"
    /\ UNCHANGED <<rpcMaxRetries, rpcAttempt, rpcLastErr, rpcCtxDone, rpcRet, rpcCalls>>

\* Call, lines 120-140: what the loop body does with the attempt's outcome.
CallCheck ==
    /\ rpcPc = "check"
    /\ IF rpcErr = NilErr
          THEN /\ rpcPc' = "done" /\ rpcRet' = RetResult
               /\ UNCHANGED <<rpcAttempt, rpcLastErr>>
          ELSE /\ rpcLastErr' = rpcErr
               /\ IF rpcCtxDone
                     THEN rpcPc' = "done" /\ rpcRet' = RetCtxErr /\ UNCHANGED rpcAttempt
                  ELSE IF IsReserved(rpcErr)
                     THEN rpcPc' = "done" /\ rpcRet' = RetErr(rpcErr)
                          /\ UNCHANGED rpcAttempt
                  ELSE /\ rpcAttempt' = rpcAttempt + 1
                       /\ IF LoopContinues(rpcAttempt + 1, rpcMaxRetries)
                             THEN rpcPc' = "wait" /\ rpcRet' = rpcRet
                             ELSE /\ rpcPc' = "done"
                                  /\ rpcRet' = RetWrapped(rpcMaxRetries + 1, rpcErr)
    /\ UNCHANGED <<rpcMaxRetries, rpcErr, rpcCtxDone, requestCount, errorCount,
                   rpcResponses, rpcCalls>>

----------------------------------------------------------------------------
(* verusrpc.Client: the counters under concurrent attempts.  requestCount and  *)
(* errorCount are atomic: an Add or a Load is one step.                        *)

MaxAttempts == 2

Callers == {"call1", "call2"}

NoStats == [Requests |-> 0, Errors |-> 0]

\* No caller and no Stats call.
ConcIdle ==
    /\ attemptPc = [g \in Callers |-> "idle"]
    /\ attemptsStarted = [g \in Callers |-> 0]
    /\ attemptsFailed = [g \in Callers |-> 0]
    /\ statsPc = "done"
    /\ stats = NoStats

\* A new client with two callers and someone about to read its statistics.
ConcInit ==
    /\ attemptPc = [g \in Callers |-> "idle"]
    /\ attemptsStarted = [g \in Callers |-> 0]
    /\ attemptsFailed = [g \in Callers |-> 0]
    /\ statsPc = "idle"
    /\ stats = NoStats

\* A plausible slip: the deferred recordMetrics is handed the attempt's error.
DeferredErrOfAttempt(err) == err

\* call, lines 148-151: the deferred recordMetrics(duration, nil).
DeferredErr(err) == NilErr

\* Client.recordMetrics: the error count afterwards.
recordMetrics(count, err) == IF err # NilErr THEN count + 1 ELSE count

\* call, line 154: c.requestCount.Add(1)
AttemptStart(g) ==
    /\ attemptPc[g] = "idle"
    /\ attemptsStarted[g] < MaxAttempts
    /\ attemptPc' = [attemptPc EXCEPT ![g] = "running"]
    /\ attemptsStarted' = [attemptsStarted EXCEPT ![g] = @ + 1]
    /\ requestCount' = requestCount + 1
    /\ UNCHANGED <<attemptsFailed, statsPc, stats, errorCount>>

\* call, lines 156-215: the attempt returns; a failure adds one to errorCount on
\* the return path it takes, then the deferred recordMetrics runs.
AttemptEnd(g) ==
    /\ attemptPc[g] = "running"
    /\ attemptPc' = [attemptPc EXCEPT ![g] = "idle"]
    /\ \E resp \in NodeResponses :
        /\ attemptsFailed' = [attemptsFailed EXCEPT
                                 ![g] = IF callErr(resp) = NilErr THEN @ ELSE @ + 1]
        /\ errorCount' = recordMetrics(IF callErr(resp) = NilErr THEN errorCount
                                                                 ELSE errorCount + 1,
                                       DeferredErr(callErr(resp)))
    /\ UNCHANGED <<attemptsStarted, statsPc, stats, requestCount>>

\* Stats, line 301: requests := c.requestCount.Load()
StatsLoadRequests ==
    /\ statsPc = "idle"
    /\ statsPc' = "loaded"
    /\ stats' = [stats EXCEPT !.Requests = requestCount]
    /\ UNCHANGED <<attemptPc, attemptsStarted, attemptsFailed, requestCount, errorCount>>

\* Stats, lines 302-322: errors := c.errorCount.Load(); the Stats value is returned.
StatsLoadErrors ==
    /\ statsPc = "loaded"
    /\ statsPc' = "done"
    /\ stats' = [stats EXCEPT !.Errors = errorCount]
    /\ UNCHANGED <<attemptPc, attemptsStarted, attemptsFailed, requestCount, errorCount>>

----------------------------------------------------------------------------
(* domain.File and its JSON encodings *)

NilPtr == << >>
Ptr(x) == <<x>>

Drop(f, k) == [x \in (DOMAIN f) \ {k} |-> f[x]]
Put(f, k, v) == [x \in (DOMAIN f) \cup {k} |-> IF x = k THEN v ELSE f[x]]
EmptyMap == [x \in {} |-> 0]

\* domain.File
MkFile(txid, chain, content, metadata, retrievedAt) ==
    [TXID |-> txid, ChainID |-> chain, Content |-> content, Metadata |-> metadata,
     RetrievedAt |-> retrievedAt]

\* var metadata domain.FileMetadata
ZeroMeta ==
    [Filename |-> EmptyStr, Size |-> 0, ContentType |-> "", Extension |-> EmptyStr,
     Hash |-> "", Compressed |-> FALSE, Encrypted |-> FALSE, CreatedAt |-> NilPtr]

MetaFields == <<"Filename", "Size", "ContentType", "Extension", "Hash", "Compressed",
                "Encrypted", "CreatedAt">>

\* json.Marshal(file.Metadata): an object with one member per exported field.
MarshalMeta(m) == [i \in 1..Len(MetaFields) |-> <<MetaFields[i], m[MetaFields[i]]>>]

\* json.Unmarshal(metaBytes, &metadata): members overwrite the fields they name.
UnmarshalMeta(j, into) ==
    [f \in DOMAIN into |->
        IF \E i \in 1..Len(j) : j[i][1] = f
            THEN (j[CHOOSE i \in 1..Len(j) : j[i][1] = f])[2]
            ELSE into[f]]

----------------------------------------------------------------------------
(* FilesystemCache (internal/cache/filesystem.go).  A path stands for the   *)
(* key it is the SHA-256 of: cache.bin maps a key to its .bin file (content  *)
(* and mtime), cache.meta to its .meta file.                                 *)

FsEmpty ==
    [bin |-> EmptyMap, meta |-> EmptyMap, size |-> 0, items |-> 0, hits |-> 0,
     misses |-> 0]

CacheRes(c, file, err) == [cache |-> c, file |-> file, err |-> err]

\* FilesystemCache.Get
FsGet(c, key, t, ttl, ctxDone) ==
    IF ctxDone THEN CacheRes(c, NilPtr, "ctx")
    ELSE IF key \notin DOMAIN c.bin
        THEN CacheRes([c EXCEPT !.misses = @ + 1], NilPtr, "miss")
    ELSE IF t - c.bin[key].mtime > ttl
        THEN CacheRes([c EXCEPT !.misses = @ + 1, !.bin = Drop(@, key),
                                !.meta = Drop(@, key)], NilPtr, "miss")
    ELSE CacheRes([c EXCEPT !.hits = @ + 1],
                  Ptr(MkFile(EmptyStr, EmptyStr, c.bin[key].content,
                             Ptr(IF key \in DOMAIN c.meta
                                     THEN UnmarshalMeta(c.meta[key], ZeroMeta)
                                     ELSE ZeroMeta),
                             t)),
                  "nil")

\* evictOldest, lines 317-334: the .bin files in the order filepath.Walk visits them.
WalkFiles(c, walk) ==
    LET stored == SelectSeq(walk, LAMBDA k : k \in DOMAIN c.bin)
    IN  [i \in 1..Len(stored) |->
            [key |-> stored[i], size |-> Len(c.bin[stored[i]].content),
             modTime |-> c.bin[stored[i]].mtime]]

RECURSIVE BubbleInner(_, _, _)
\* evictOldest, lines 339-343: one pass of the inner loop, j = from..last.
BubbleInner(files, from, last) ==
    IF from > last THEN files
    ELSE BubbleInner(
            IF files[from].modTime > files[from + 1].modTime
                THEN [files EXCEPT ![from] = files[from + 1], ![from + 1] = files[from]]
                ELSE files,
            from + 1, last)

RECURSIVE BubbleOuter(_, _)
\* evictOldest, lines 338-344: the bubble sort by modification time.
BubbleOuter(files, i) ==
    IF i > Len(files) - 2 THEN files
    ELSE BubbleOuter(BubbleInner(files, 1, Len(files) - i - 1), i + 1)

RECURSIVE EvictLoop(_, _, _, _, _)
\* evictOldest, lines 347-360
EvictLoop(c, files, idx, freedSize, neededSize) ==
    IF idx > Len(files) \/ freedSize >= neededSize THEN c
    ELSE EvictLoop([c EXCEPT !.bin = Drop(@, files[idx].key),
                             !.meta = Drop(@, files[idx].key),
                             !.size = @ - files[idx].size,
                             !.items = @ - 1],
                   files, idx + 1, freedSize + files[idx].size, neededSize)

\* FilesystemCache.evictOldest
evictOldest(c, walk, neededSize) ==
    EvictLoop(c, BubbleOuter(WalkFiles(c, walk), 0), 1, 0, neededSize)

\* FilesystemCache.Set; the ttl argument is not used.
FsSet(c, cfg, key, file, ttl, t, ctxDone) ==
    IF ctxDone THEN CacheRes(c, NilPtr, "ctx")
    ELSE
        LET fileSize == Len(file.Content)
            c1 == IF c.size + fileSize > cfg.maxSize
                      THEN evictOldest(c, cfg.walk, fileSize)
                      ELSE c
        IN  CacheRes([c1 EXCEPT
                         !.bin = Put(@, key, [content |-> file.Content, mtime |-> t]),
                         !.meta = IF file.Metadata # NilPtr
                                      THEN Put(@, key, MarshalMeta(file.Metadata[1]))
                                      ELSE @,
                         !.size = @ + fileSize,
                         !.items = @ + 1],
                     NilPtr, "nil")

\* Delete without the os.Stat guard: the counters are lowered for an absent key too.
FsDeleteUnguarded(c, key, ctxDone) ==
    IF ctxDone THEN CacheRes(c, NilPtr, "ctx")
    ELSE CacheRes([c EXCEPT
                      !.size = IF key \in DOMAIN c.bin
                                   THEN @ - Len(c.bin[key].content) ELSE @,
                      !.items = @ - 1,
                      !.bin = Drop(@, key),
                      !.meta = Drop(@, key)],
                  NilPtr, "nil")

\* FilesystemCache.Delete
FsDelete(c, key, ctxDone) ==
    IF ctxDone THEN CacheRes(c, NilPtr, "ctx")
    ELSE CacheRes([c EXCEPT
                      !.size = IF key \in DOMAIN c.bin
                                   THEN @ - Len(c.bin[key].content) ELSE @,
                      !.items = IF key \in DOMAIN c.bin THEN @ - 1 ELSE @,
                      !.bin = Drop(@, key),
                      !.meta = Drop(@, key)],
                  NilPtr, "nil")

\* FilesystemCache.Clear
FsClear(c, ctxDone) ==
    IF ctxDone THEN CacheRes(c, NilPtr, "ctx")
    ELSE CacheRes([c EXCEPT !.bin = EmptyMap, !.meta = EmptyMap, !.size = 0,
                            !.items = 0],
                  NilPtr, "nil")

RECURSIVE CleanupWalkInclusive(_, _, _, _, _)
\* A plausible slip: an entry whose age equals the ttl is removed as well.
CleanupWalkInclusive(c, files, idx, t, ttl) ==
    IF idx > Len(files) THEN c
    ELSE CleanupWalkInclusive(
            IF t - files[idx].modTime >= ttl
                THEN [c EXCEPT !.bin = Drop(@, files[idx].key),
                               !.meta = Drop(@, files[idx].key),
                               !.size = @ - files[idx].size,
                               !.items = @ - 1]
                ELSE c,
            files, idx + 1, t, ttl)

RECURSIVE CleanupWalk(_, _, _, _, _)
\* FilesystemCache.cleanup: the walk over the .bin files.
CleanupWalk(c, files, idx, t, ttl) ==
    IF idx > Len(files) THEN c
    ELSE CleanupWalk(
            IF t - files[idx].modTime > ttl
                THEN [c EXCEPT !.bin = Drop(@, files[idx].key),
                               !.meta = Drop(@, files[idx].key),
                               !.size = @ - files[idx].size,
                               !.items = @ - 1]
                ELSE c,
            files, idx + 1, t, ttl)

\* FilesystemCache.cleanup
FsCleanup(c, walk, t, ttl) == CleanupWalk(c, WalkFiles(c, walk), 1, t, ttl)

----------------------------------------------------------------------------
(* RedisCache (internal/cache/redis.go).  cache.store is the server's       *)
(* keyspace: a key maps to its value and the time it expires at.             *)

RdEmpty == [store |-> EmptyMap, hits |-> 0, misses |-> 0]

\* json.Marshal(cacheEntry{...}); "metadata" is omitempty.
MarshalEntry(file, t) ==
    <<<<"content", file.Content>>>>
    \o (IF file.Metadata # NilPtr
            THEN <<<<"metadata", MarshalMeta(file.Metadata[1])>>>>
            ELSE << >>)
    \o <<<<"retrieved_at", t>>>>

\* json.Unmarshal(data, &entry) and the File built from the entry.
EntryFile(j) ==
    LET e == UnmarshalMeta(j, [content |-> << >>, metadata |-> NilPtr,
                               retrieved_at |-> 0])
    IN  MkFile(EmptyStr, EmptyStr, e.content,
               IF e.metadata = NilPtr THEN NilPtr
                                      ELSE Ptr(UnmarshalMeta(e.metadata, ZeroMeta)),
               e.retrieved_at)

\* A value under a key of the store that is not a JSON document: json.Unmarshal
\* fails on it.
CorruptEntry == <<"{">>

\* RedisCache.Get; the server answers redis.Nil for an absent or expired key.
RdGet(c, key, t, ctxDone) ==
    IF ctxDone THEN CacheRes([c EXCEPT !.misses = @ + 1], NilPtr, "error")
    ELSE IF key \notin DOMAIN c.store \/ t >= c.store[key].expireAt
        THEN CacheRes([c EXCEPT !.misses = @ + 1, !.store = Drop(@, key)], NilPtr, "miss")
    ELSE IF c.store[key].data = CorruptEntry
        THEN CacheRes([c EXCEPT !.misses = @ + 1], NilPtr, "error")
    ELSE CacheRes([c EXCEPT !.hits = @ + 1], Ptr(EntryFile(c.store[key].data)), "nil")

\* RedisCache.Set
RdSet(c, cfg, key, file, ttl, t, ctxDone) ==
    IF ctxDone THEN CacheRes(c, NilPtr, "error")
    ELSE CacheRes([c EXCEPT !.store =
                      Put(@, key, [data |-> MarshalEntry(file, t),
                                   expireAt |-> t + (IF ttl = 0 THEN cfg.ttl ELSE ttl)])],
                  NilPtr, "nil")

\* RedisCache.Delete
RdDelete(c, key, ctxDone) ==
    IF ctxDone THEN CacheRes(c, NilPtr, "error")
    ELSE CacheRes([c EXCEPT !.store = Drop(@, key)], NilPtr, "nil")

\* RedisCache.Clear
RdClear(c, ctxDone) ==
    IF ctxDone THEN CacheRes(c, NilPtr, "error")
    ELSE CacheRes([c EXCEPT !.store = EmptyMap], NilPtr, "nil")

----------------------------------------------------------------------------
(* domain.Cache: the configured implementation behind the interface *)

CacheGet(cfg, c, key, t, ctxDone) ==
    IF cfg.type = "filesystem" THEN FsGet(c, key, t, cfg.ttl, ctxDone)
                               ELSE RdGet(c, key, t, ctxDone)

CacheSet(cfg, c, key, file, ttl, t, ctxDone) ==
    IF cfg.type = "filesystem" THEN FsSet(c, cfg, key, file, ttl, t, ctxDone)
                               ELSE RdSet(c, cfg, key, file, ttl, t, ctxDone)

CacheDelete(cfg, c, key, ctxDone) ==
    IF cfg.type = "filesystem" THEN FsDelete(c, key, ctxDone)
                               ELSE RdDelete(c, key, ctxDone)

CacheClear(cfg, c, ctxDone) ==
    IF cfg.type = "filesystem" THEN FsClear(c, ctxDone) ELSE RdClear(c, ctxDone)

\* The keys with stored data.
StoredKeys(cfg, c) == IF cfg.type = "filesystem" THEN DOMAIN c.bin ELSE DOMAIN c.store

----------------------------------------------------------------------------
(* Client.Call as GetFile runs it: the whole retry loop against a node whose  *)
(* answer to the i-th POST is script[i]                                       *)

RECURSIVE CallLoop(_, _, _, _, _, _)
\* Call, lines 106-143. calls and failed count the POSTs made and those that failed.
CallLoop(attempt, maxRetries, script, ctxDone, lastErr, failed) ==
    IF ~LoopContinues(attempt, maxRetries)
        THEN [ret |-> RetWrapped(maxRetries + 1, lastErr), calls |-> attempt,
              failed |-> failed]
    ELSE IF attempt > 0 /\ ctxDone
        THEN [ret |-> RetCtxErr, calls |-> attempt, failed |-> failed]
    ELSE LET err == IF ctxDone THEN TransportErr ELSE callErr(script[attempt + 1])
         IN  IF err = NilErr
                 THEN [ret |-> RetResult, calls |-> attempt + 1, failed |-> failed]
             ELSE IF ctxDone
                 THEN [ret |-> RetCtxErr, calls |-> attempt + 1, failed |-> failed + 1]
             ELSE IF IsReserved(err)
                 THEN [ret |-> RetErr(err), calls |-> attempt + 1,
                       failed |-> failed + 1]
             ELSE CallLoop(attempt + 1, maxRetries, script, ctxDone, err, failed + 1)

Call(maxRetries, script, ctxDone) == CallLoop(0, maxRetries, script, ctxDone, NilErr, 0)

\* The "result" member of a decryptdata response.
ResultHex(h) == [isArray |-> TRUE, items |-> <<[objectdata |-> Ptr(h)]>>]
ResultEmpty == [isArray |-> TRUE, items |-> << >>]
ResultNoData == [isArray |-> TRUE, items |-> <<[objectdata |-> NilPtr]>>]
ResultNotArray == [isArray |-> FALSE, items |-> << >>]

\* Client.DecryptData, lines 246-264: the hex string of the first element's
\* objectdata, given what Call returned.
ParseDecryptData(c, result) ==
    IF c.ret # RetResult
        THEN [hex |-> EmptyStr, ok |-> FALSE, calls |-> c.calls, failed |-> c.failed]
    ELSE IF ~result.isArray \/ Len(result.items) = 0
            \/ result.items[1].objectdata = NilPtr
        THEN [hex |-> EmptyStr, ok |-> FALSE, calls |-> c.calls, failed |-> c.failed]
    ELSE [hex |-> result.items[1].objectdata[1], ok |-> TRUE, calls |-> c.calls,
          failed |-> c.failed]

\* Client.DecryptData
ClientDecryptData(maxRetries, script, result, ctxDone) ==
    ParseDecryptData(Call(maxRetries, script, ctxDone), result)

----------------------------------------------------------------------------
(* crypto.Decryptor (internal/crypto/decrypt.go) *)

\* reTXID  ^[0-9a-fA-F]{64}$
reTXID(s) == Len(s) = TxidLen /\ AllIn(s, Digits \cup LowerAF \cup UpperAF)

\* A plausible slip: the decryptor lets an empty viewing key through.
reEVKOrEmpty(s) ==
    s = EmptyStr \/ (HasPrefix(s, ZxViews) /\ Len(s) > Len(ZxViews)
                     /\ AllIn(SubSeq(s, Len(ZxViews) + 1, Len(s)), Digits \cup Lower))

\* reEVK  ^zxviews[0-9a-z]+$
reEVK(s) ==
    /\ HasPrefix(s, ZxViews)
    /\ Len(s) > Len(ZxViews)
    /\ AllIn(SubSeq(s, Len(ZxViews) + 1, Len(s)), Digits \cup Lower)

HexDigits ==
    <<"0", "1", "2", "3", "4", "5", "6", "7", "8", "9", "a", "b", "c", "d", "e", "f">>
HexUpper == <<"A", "B", "C", "D", "E", "F">>

IsHexChar(c) ==
    (\E i \in 1..Len(HexDigits) : HexDigits[i] = c)
    \/ (\E i \in 1..Len(HexUpper) : HexUpper[i] = c)

HexVal(c) ==
    IF \E i \in 1..Len(HexDigits) : HexDigits[i] = c
        THEN (CHOOSE i \in 1..Len(HexDigits) : HexDigits[i] = c) - 1
        ELSE (CHOOSE i \in 1..Len(HexUpper) : HexUpper[i] = c) + 9

\* hex.DecodeString
DecodeString(h) ==
    IF Len(h) % 2 = 1 \/ \E i \in 1..Len(h) : ~IsHexChar(h[i])
        THEN [ok |-> FALSE, data |-> << >>]
        ELSE [ok |-> TRUE,
              data |-> [i \in 1..(Len(h) \div 2) |->
                           16 * HexVal(h[2 * i - 1]) + HexVal(h[2 * i])]]

\* hex.EncodeToString, as the node encodes objectdata
EncodeToString(bytes) ==
    [i \in 1..(2 * Len(bytes)) |->
        IF i % 2 = 1 THEN HexDigits[(bytes[(i + 1) \div 2] \div 16) + 1]
                     ELSE HexDigits[(bytes[i \div 2] % 16) + 1]]

\* Decryptor.DecryptData, lines 46-57: what becomes of the client's answer r.
DecodeDecrypted(r) ==
    IF ~r.ok \/ ~DecodeString(r.hex).ok
        THEN [err |-> NewDecryptionError, data |-> << >>, calls |-> r.calls,
              failed |-> r.failed]
        ELSE [err |-> NoError, data |-> DecodeString(r.hex).data, calls |-> r.calls,
              failed |-> r.failed]

\* Decryptor.DecryptData
DecryptData(maxRetries, req, script, result, ctxDone) ==
    IF ~reTXID(req.TXID) \/ ~reEVK(req.EVK)
        THEN [err |-> NewInvalidInputError, data |-> << >>, calls |-> 0, failed |-> 0]
        ELSE DecodeDecrypted(ClientDecryptData(maxRetries, script, result, ctxDone))

----------------------------------------------------------------------------
(* storage.Decompressor and storage.Detector.  A gzip stream is the magic    *)
(* 1f 8b, the method byte 08, the payload, and a one-byte checksum of it.     *)

GzipMagic == <<31, 139>>
GzipHeader == GzipMagic \o <<8>>

RECURSIVE ByteSum(_)
ByteSum(bytes) == IF bytes = << >> THEN 0 ELSE bytes[1] + ByteSum(Tail(bytes))

Gzip(payload) == GzipHeader \o payload \o <<ByteSum(payload) % 256>>

\* Decompressor.isGzipped
isGzipped(content) == Len(content) >= 2 /\ SubSeq(content, 1, 2) = GzipMagic

\* Decompressor.decompressGzip with limitedWriter.Write: the reader rejects a bad
\* header; the one Write of the payload fails once no allowance is left after it;
\* the checksum is verified at the end of the stream.
decompressGzip(content, maxSize) ==
    IF Len(content) < 4 \/ content[3] # GzipHeader[3]
        THEN [ok |-> FALSE, data |-> << >>]
    ELSE LET out == SubSeq(content, 4, Len(content) - 1)
         IN  IF Len(out) > 0 /\ (maxSize <= 0 \/ maxSize - Len(out) <= 0)
                 THEN [ok |-> FALSE, data |-> << >>]
             ELSE IF content[Len(content)] # ByteSum(out) % 256
                 THEN [ok |-> FALSE, data |-> << >>]
             ELSE [ok |-> TRUE, data |-> out]

\* Decompressor.Decompress
Decompress(content, maxSize) ==
    IF ~isGzipped(content) THEN [ok |-> TRUE, data |-> content]
    ELSE decompressGzip(content, maxSize)

----------------------------------------------------------------------------
(* decompressGzip step by step: io.Copy reads a chunk from the gzip reader and *)
(* writes it to the limitedWriter until either returns an error.               *)

MaxChunk == 2  \* the most bytes one Read of the gzip reader yields

StreamBytes == {104, 105}

RECURSIVE SeqsUpTo(_, _)
SeqsUpTo(S, n) ==
    IF n = 0 THEN {<< >>}
    ELSE LET shorter == SeqsUpTo(S, n - 1)
         IN  shorter \cup {Append(s, x) : s \in {t \in shorter : Len(t) = n - 1}, x \in S}

ErrSizeLimit == "size limit exceeded"
ErrChecksum == "gzip: invalid checksum"
ErrShortWrite == "short write"

\* limitedWriter.Write
limitedWriterWrite(out, n, p) ==
    IF n <= 0 THEN [out |-> out, N |-> n, n |-> 0, err |-> ErrSizeLimit]
    ELSE LET q == IF Len(p) > n THEN SubSeq(p, 1, n) ELSE p
         IN  [out |-> out \o q, N |-> n - Len(q), n |-> Len(q),
              err |-> IF n - Len(q) <= 0 THEN ErrSizeLimit ELSE "nil"]

\* No decompression.
DzIdle ==
    /\ dzPc = "done"
    /\ dzStream = [bytes |-> << >>, corrupt |-> FALSE]
    /\ dzRead = 0
    /\ dzOut = << >>
    /\ dzN = 0
    /\ dzMaxSize = 0
    /\ dzErr = "nil"

\* decompressGzip up to io.Copy: an empty buffer and a limitedWriter with N = maxSize.
DzInit ==
    /\ dzPc = "copy"
    /\ dzStream \in [bytes : SeqsUpTo(StreamBytes, DecompressMaxSize + 1),
                      corrupt : BOOLEAN]
    /\ dzRead = 0
    /\ dzOut = << >>
    /\ dzMaxSize \in 1..DecompressMaxSize
    /\ dzN = dzMaxSize
    /\ dzErr = ""

\* io.Copy: one Read that yields data, and the Write of it.
CopyChunk ==
    /\ dzPc = "copy"
    /\ dzRead < Len(dzStream.bytes)
    /\ \E nr \in 1..MaxChunk :
          /\ dzRead + nr <= Len(dzStream.bytes)
          /\ LET w == limitedWriterWrite(dzOut, dzN,
                                         SubSeq(dzStream.bytes, dzRead + 1, dzRead + nr))
             IN  /\ dzRead' = dzRead + nr
                 /\ dzOut' = w.out
                 /\ dzN' = w.N
                 /\ IF w.err # "nil"
                       THEN dzPc' = "done" /\ dzErr' = w.err
                    ELSE IF w.n # nr
                       THEN dzPc' = "done" /\ dzErr' = ErrShortWrite
                    ELSE dzPc' = "copy" /\ dzErr' = dzErr
    /\ UNCHANGED <<dzStream, dzMaxSize>>

\* io.Copy: the Read at the end of the stream, io.EOF or the checksum error.
CopyEnd ==
    /\ dzPc = "copy"
    /\ dzRead = Len(dzStream.bytes)
    /\ dzPc' = "done"
    /\ dzErr' = IF dzStream.corrupt THEN ErrChecksum ELSE "nil"
    /\ UNCHANGED <<dzStream, dzRead, dzOut, dzN, dzMaxSize>>

GifMagic == <<71, 73, 70, 56>>

IsTextByte(b) == b \in {9, 10, 13} \/ (b >= 32 /\ b <= 126)

\* Detector.DetectMIME on contents shorter than the 16 bytes detectBySignature
\* needs: what http.DetectContentType answers.
DetectMIME(content) ==
    IF Len(content) = 0 THEN "application/octet-stream"
    ELSE IF Len(content) >= 4 /\ SubSeq(content, 1, 4) = GifMagic THEN "image/gif"
    ELSE IF Len(content) >= 3 /\ SubSeq(content, 1, 3) = GzipHeader
        THEN "application/x-gzip"
    ELSE IF \A i \in 1..Len(content) : IsTextByte(content[i])
        THEN "text/plain; charset=utf-8"
    ELSE "application/octet-stream"

\* Detector.DetectExtension: extMap, "bin" for a MIME type it does not list.
DetectExtension(content) ==
    LET mime == DetectMIME(content)
    IN  IF mime = "image/gif" THEN <<"g", "i", "f">>
        ELSE IF mime = "application/x-gzip" THEN <<"g", "z">>
        ELSE <<"b", "i", "n">>

\* filepath.Ext: the suffix from the last dot on.
Ext(name) ==
    IF \E i \in 1..Len(name) : name[i] = "."
        THEN LET d == CHOOSE i \in 1..Len(name) :
                          name[i] = "." /\ \A j \in (i + 1)..Len(name) : name[j] # "."
             IN  SubSeq(name, d, Len(name))
        ELSE EmptyStr

\* Detector.DetectType
DetectType(content, filename) ==
    LET ext == IF filename # EmptyStr /\ Ext(filename) # EmptyStr
                   THEN Tail(Ext(filename)) ELSE EmptyStr
    IN  [ZeroMeta EXCEPT
            !.Filename = filename,
            !.Size = Len(content),
            !.ContentType = DetectMIME(content),
            !.Extension = IF ext = EmptyStr THEN DetectExtension(content) ELSE ext,
            !.Compressed = isGzipped(content)]

----------------------------------------------------------------------------
(* chain.Manager and FileService (internal/service/file_service.go) *)

\* A plausible slip: an unknown chain is served by the default chain's client.
GetChainOrDefault(reg, chainID) ==
    IF chainID \in reg.chains \/ reg.default \in reg.chains THEN NoError
                                                            ELSE NewChainError

\* Manager.GetChain
GetChain(reg, chainID) ==
    IF chainID \in reg.chains THEN NoError ELSE NewChainError

\* FileService.getClient
getClient(reg, chainID) ==
    IF chainID = EmptyStr THEN GetChain(reg, reg.default) ELSE GetChain(reg, chainID)

InTrace(call, trace) == \E i \in 1..Len(trace) : trace[i] = call

CountInTrace(call, trace) == Cardinality({i \in 1..Len(trace) : trace[i] = call})

\* What GetFile returns, with the calls it made on the way.
SvcRes(err, file, trace, cacheRes, calls, failed, spawn) ==
    [err |-> err, file |-> file, trace |-> trace, cacheRes |-> cacheRes,
     calls |-> calls, failed |-> failed, spawn |-> spawn]

\* GetFile, lines 76-102: the File built from the decompressed data, and the
\* goroutine that will store it.
BuildFile(req, data, t, caching, trace, cacheRes, dec) ==
    SvcRes(NoError, Ptr(MkFile(req.TXID, req.ChainID, data,
                               Ptr(DetectType(data, req.Filename)), t)),
           trace \o <<"decompress", "detect">>
                 \o (IF caching THEN <<"go cache.Set">> ELSE << >>),
           cacheRes, dec.calls, dec.failed,
           IF caching
               THEN Ptr([key |-> CacheKey(req),
                         file |-> MkFile(req.TXID, req.ChainID, data,
                                         Ptr(DetectType(data, req.Filename)), t)])
               ELSE NilPtr)

\* A plausible slip: a decompression error fails the request.
AfterDecryptStrict(req, dec, t, caching, trace, cacheRes) ==
    IF dec.err # NoError \/ ~Decompress(dec.data, DecompressMaxSize).ok
        THEN SvcRes(IF dec.err # NoError THEN dec.err ELSE NewDecompressionError, NilPtr,
                    trace \o [i \in 1..dec.calls |-> "node.rpc"],
                    cacheRes, dec.calls, dec.failed, NilPtr)
        ELSE BuildFile(req, Decompress(dec.data, DecompressMaxSize).data,
                       t, caching, trace \o [i \in 1..dec.calls |-> "node.rpc"],
                       cacheRes, dec)

\* GetFile, lines 62-74: a decryption error is returned; a decompression error
\* leaves the data as decrypted.
AfterDecrypt(req, dec, t, caching, trace, cacheRes) ==
    IF dec.err # NoError
        THEN SvcRes(dec.err, NilPtr, trace \o [i \in 1..dec.calls |-> "node.rpc"],
                    cacheRes, dec.calls, dec.failed, NilPtr)
        ELSE BuildFile(req,
                       IF Decompress(dec.data, DecompressMaxSize).ok
                           THEN Decompress(dec.data, DecompressMaxSize).data
                           ELSE dec.data,
                       t, caching, trace \o [i \in 1..dec.calls |-> "node.rpc"],
                       cacheRes, dec)

\* FileService.GetFile, from the registry lookup on.
GetFileMiss(reg, maxRetries, req, script, result, ctxDone, t, hasCache, trace, cacheRes) ==
    IF getClient(reg, req.ChainID) # NoError
        THEN SvcRes(getClient(reg, req.ChainID), NilPtr, trace \o <<"registry">>,
                    cacheRes, 0, 0, NilPtr)
        ELSE AfterDecrypt(req, DecryptData(maxRetries, req, script, result, ctxDone), t,
                          req.UseCache /\ hasCache, trace \o <<"registry">>, cacheRes)

\* A plausible slip: a hit does not end the request; the file is fetched again.
AfterCacheGetRefetch(res, reg, maxRetries, req, script, result, ctxDone, t) ==
    GetFileMiss(reg, maxRetries, req, script, result, ctxDone, t, TRUE, <<"cache.Get">>,
                Ptr(res))

\* A plausible slip: only a miss lets the request go on; any other error of the
\* cache is returned.
AfterCacheGetStrict(res, reg, maxRetries, req, script, result, ctxDone, t) ==
    IF res.err = "nil"
        THEN SvcRes(NoError, res.file, <<"cache.Get">>, Ptr(res), 0, 0, NilPtr)
    ELSE IF res.err # "miss"
        THEN SvcRes(NewError("INTERNAL_ERROR", 500), NilPtr, <<"cache.Get">>, Ptr(res),
                    0, 0, NilPtr)
    ELSE GetFileMiss(reg, maxRetries, req, script, result, ctxDone, t, TRUE,
                     <<"cache.Get">>, Ptr(res))

\* GetFile, lines 44-50, given what cache.Get returned.
AfterCacheGet(res, reg, maxRetries, req, script, result, ctxDone, t) ==
    IF res.err = "nil"
        THEN SvcRes(NoError, res.file, <<"cache.Get">>, Ptr(res), 0, 0, NilPtr)
        ELSE GetFileMiss(reg, maxRetries, req, script, result, ctxDone, t, TRUE,
                         <<"cache.Get">>, Ptr(res))

\* A plausible slip: the cache is consulted before the request is validated.
GetFileCacheFirst(cfg, c, reg, maxRetries, req, script, result, ctxDone, t) ==
    IF req.UseCache /\ cfg.type # "none"
        THEN AfterCacheGet(CacheGet(cfg, c, CacheKey(req), t, ctxDone), reg, maxRetries,
                           req, script, result, ctxDone, t)
    ELSE IF Validate(req) # NoError
        THEN SvcRes(Validate(req), NilPtr, << >>, NilPtr, 0, 0, NilPtr)
    ELSE GetFileMiss(reg, maxRetries, req, script, result, ctxDone, t,
                     cfg.type # "none", << >>, NilPtr)

\* FileService.GetFile
GetFile(cfg, c, reg, maxRetries, req, script, result, ctxDone, t) ==
    IF Validate(req) # NoError
        THEN SvcRes(Validate(req), NilPtr, << >>, NilPtr, 0, 0, NilPtr)
    ELSE IF req.UseCache /\ cfg.type # "none"
        THEN AfterCacheGet(CacheGet(cfg, c, CacheKey(req), t, ctxDone), reg, maxRetries,
                           req, script, result, ctxDone, t)
    ELSE GetFileMiss(reg, maxRetries, req, script, result, ctxDone, t,
                     cfg.type # "none", << >>, NilPtr)

----------------------------------------------------------------------------
(* Sample inputs *)

TxA == Rep("a", TxidLen)
TxB == [i \in 1..TxidLen |-> IF i = 1 THEN "0" ELSE "F"]
TxShort == <<"a", "b">>
TxShortMarked == TxShort \o EncryptedSuffix
TxNonHex == Rep("g", TxidLen)

ChainVrsc == <<"v", "r", "s", "c">>
ChainTest == <<"v", "r", "s", "c", "t", "e", "s", "t">>
ChainColon == <<"v", ":", "c">>
ChainPbaas == <<"p", "b">>
ChainLong == Rep("c", ChainIDMaxLen + 1)

EvkLower == ZxViews \o Rep("q", EVKMinTail)
EvkLower2 == ZxViews \o Rep("7", EVKMinTail + 1)
EvkUpper == ZxViews \o Rep("Q", EVKMinTail)
EvkShort == ZxViews \o Rep("q", 3)
EvkBadPrefix == Rep("q", EVKMinLen)

FileGif == <<"l", "e", "e", ".", "g", "i", "f">>
FileTraversal == <<".", ".", "x">>
FileTxt == <<"a", ".", "t">>

KeyTxids == {TxA, TxB, TxShort, TxShortMarked, TxNonHex, EmptyStr}
KeyChains == {ChainVrsc, ChainTest, ChainColon, ChainLong, EmptyStr}
KeyEvks == {EmptyStr, EvkLower, EvkLower2, EvkUpper, EvkShort, EvkBadPrefix}

KeyRequests ==
    {MkReq(c, t, e, FileGif, TRUE) : c \in KeyChains, t \in KeyTxids, e \in KeyEvks}
    \cup {MkReq(ChainVrsc, TxA, EvkLower, FileTraversal, FALSE)}

----------------------------------------------------------------------------
(* Cache-key harness: two arbitrary requests are validated and keyed. *)

KeyInit ==
    /\ keyPc = "init"
    /\ keyReqA \in KeyRequests
    /\ keyReqB \in KeyRequests
    /\ keyA = EmptyStr
    /\ keyB = EmptyStr
    /\ keyErrA = NoError
    /\ keyErrB = NoError

KeyCompute ==
    /\ keyPc = "init"
    /\ keyPc' = "done"
    /\ keyErrA' = Validate(keyReqA)
    /\ keyErrB' = Validate(keyReqB)
    /\ keyA' = CacheKey(keyReqA)
    /\ keyB' = CacheKey(keyReqB)
    /\ UNCHANGED <<keyReqA, keyReqB>>

----------------------------------------------------------------------------
(* The cache under its callers: Get, Set, Delete, Clear, the sweeper, time *)

CacheKeyA == <<"k", "1">>
CacheKeyB == <<"k", "2">>
CacheKeySet == {CacheKeyA, CacheKeyB}

MetaOf(content) ==
    [ZeroMeta EXCEPT !.Filename = FileGif, !.Size = Len(content),
                     !.ContentType = "image/gif", !.Extension = <<".", "g", "i", "f">>]

\* Contents of 1..MaxSizeCfg+1 bytes; those of odd length carry no metadata.
CacheFiles ==
    {MkFile(TxA, ChainVrsc, [i \in 1..n |-> n],
            IF n % 2 = 1 THEN NilPtr ELSE Ptr(MetaOf([i \in 1..n |-> n])), 0) :
        n \in 1..(MaxSizeCfg + 1)}

\* The record of a step that is no cache operation.
NoCacheOp(op) ==
    [op |-> op, key |-> EmptyStr, ttl |-> 0, err |-> "nil", file |-> NilPtr,
     arg |-> NilPtr, prev |-> NilPtr]

\* No cache configured.
CacheIdle ==
    /\ cacheCfg = [type |-> "none", ttl |-> 0, maxSize |-> 0, walk |-> << >>]
    /\ cache = RdEmpty
    /\ now = 0
    /\ cacheOps = 0
    /\ cacheLast = NoCacheOp("none")
    /\ cacheLive = EmptyMap

\* NewFilesystemCache on an empty directory, or NewRedisCache on an empty server.
CacheInit ==
    /\ \E type \in {"filesystem", "redis"}, ttl \in 1..MaxTtl,
          walk \in {<<CacheKeyA, CacheKeyB>>, <<CacheKeyB, CacheKeyA>>} :
            /\ cacheCfg = [type |-> type, ttl |-> ttl, maxSize |-> MaxSizeCfg,
                           walk |-> walk]
            /\ cache = IF type = "filesystem" THEN FsEmpty ELSE RdEmpty
    /\ now = 0
    /\ cacheOps = 0
    /\ cacheLast = NoCacheOp("none")
    /\ cacheLive = EmptyMap

\* NewFilesystemCache on an empty directory that holds one entry more than CacheInit's.
FsInit ==
    /\ \E walk \in {<<CacheKeyA, CacheKeyB>>, <<CacheKeyB, CacheKeyA>>} :
            cacheCfg = [type |-> "filesystem", ttl |-> 1, maxSize |-> MaxSizeCfg + 1,
                        walk |-> walk]
    /\ cache = FsEmpty
    /\ now = 0
    /\ cacheOps = 0
    /\ cacheLast = NoCacheOp("none")
    /\ cacheLive = EmptyMap

Restrict(f, keys) == [x \in (DOMAIN f) \cap keys |-> f[x]]

Lookup(f, k) == IF k \in DOMAIN f THEN Ptr(f[k]) ELSE NilPtr

\* The bookkeeping every cache operation ends with.
CacheDone(op, key, ttl, arg, res, live) ==
    /\ cache' = res.cache
    /\ cacheLast' = [op |-> op, key |-> key, ttl |-> ttl, err |-> res.err,
                     file |-> res.file, arg |-> arg, prev |-> Lookup(cacheLive, key)]
    /\ cacheLive' = Restrict(live, StoredKeys(cacheCfg, res.cache))

DoGet ==
    /\ cacheOps < MaxOps
    /\ cacheOps' = cacheOps + 1
    /\ \E key \in CacheKeySet, ctxDone \in BOOLEAN :
        CacheDone("Get", key, 0, NilPtr, CacheGet(cacheCfg, cache, key, now, ctxDone),
                  cacheLive)
    /\ UNCHANGED <<cacheCfg, now>>

\* A caller's Set, its ttl argument drawn from ttls.
SetOf(ttls) ==
    /\ cacheOps < MaxOps
    /\ cacheOps' = cacheOps + 1
    /\ \E key \in CacheKeySet, file \in CacheFiles, ttl \in ttls,
          ctxDone \in BOOLEAN :
        LET res == CacheSet(cacheCfg, cache, key, file, ttl, now, ctxDone)
        IN  CacheDone("Set", key, ttl, Ptr(file), res,
                      IF res.err = "nil"
                          THEN Put(cacheLive, key, [file |-> file, at |-> now, ttl |-> ttl])
                          ELSE cacheLive)
    /\ UNCHANGED <<cacheCfg, now>>

DoSet == SetOf(0..MaxTtl)

\* The file service's Set: one ttl for every entry.
DoSetDefault == SetOf({cacheCfg.ttl})

DoDelete ==
    /\ cacheOps < MaxOps
    /\ cacheOps' = cacheOps + 1
    /\ \E key \in CacheKeySet, ctxDone \in BOOLEAN :
        CacheDone("Delete", key, 0, NilPtr, CacheDelete(cacheCfg, cache, key, ctxDone),
                  cacheLive)
    /\ UNCHANGED <<cacheCfg, now>>

DoClear ==
    /\ cacheOps < MaxOps
    /\ cacheOps' = cacheOps + 1
    /\ \E ctxDone \in BOOLEAN :
        CacheDone("Clear", EmptyStr, 0, NilPtr, CacheClear(cacheCfg, cache, ctxDone),
                  cacheLive)
    /\ UNCHANGED <<cacheCfg, now>>

\* cleanupLoop: the ticker fires and cleanup runs.
Sweep ==
    /\ cacheCfg.type = "filesystem"
    /\ cacheOps < MaxOps
    /\ cacheOps' = cacheOps + 1
    /\ CacheDone("cleanup", EmptyStr, 0, NilPtr,
                 CacheRes(FsCleanup(cache, cacheCfg.walk, now, cacheCfg.ttl), NilPtr, "nil"),
                 cacheLive)
    /\ UNCHANGED <<cacheCfg, now>>

Tick ==
    /\ now < MaxTime
    /\ now' = now + 1
    /\ cacheLast' = NoCacheOp("Tick")
    /\ UNCHANGED <<cacheCfg, cache, cacheOps, cacheLive>>

----------------------------------------------------------------------------
(* FileService under its callers: requests, the node's answers, and the      *)
(* cache-population goroutines                                                *)

RespOK == [transport |-> FALSE, status |-> StatusOK, body |-> "result", code |-> 0]
RespTransport == [transport |-> TRUE, status |-> 0, body |-> "none", code |-> 0]
RespHTTP500 == [transport |-> FALSE, status |-> 500, body |-> "garbage", code |-> 0]
RespReserved ==
    [transport |-> FALSE, status |-> StatusOK, body |-> "error", code |-> RPCReservedHi]
RespOther ==
    [transport |-> FALSE, status |-> StatusOK, body |-> "error",
     code |-> RPCReservedHi + 1]

\* The longest retry loop any client runs.
ScriptLen ==
    (IF MaxRetriesCfg > DefaultMaxRetries THEN MaxRetriesCfg ELSE DefaultMaxRetries) + 1

Always(resp) == [i \in 1..ScriptLen |-> resp]
FailThenOK(k) == [i \in 1..ScriptLen |-> IF i <= k THEN RespTransport ELSE RespOK]

BytesText == <<104, 105>>
HexText == EncodeToString(BytesText)
HexGzip == EncodeToString(Gzip(BytesText))
HexGzipCorrupt == EncodeToString(GzipHeader \o BytesText \o <<0>>)
HexGzipBig == EncodeToString(Gzip([i \in 1..DecompressMaxSize |-> 104]))
HexOdd == <<"6", "8", "6">>

\* The node's behaviour during one GetFile: its answers and the result it holds.
NodeScripts ==
    {[script |-> Always(r), result |-> ResultEmpty] :
        r \in {RespTransport, RespHTTP500, RespReserved, RespOther}}
    \cup {[script |-> FailThenOK(0), result |-> res] :
            res \in {ResultHex(HexText), ResultHex(HexGzip), ResultHex(HexGzipCorrupt),
                     ResultHex(HexGzipBig), ResultHex(HexOdd), ResultEmpty,
                     ResultNoData, ResultNotArray}}
    \cup {[script |-> FailThenOK(1), result |-> ResultHex(HexText)]}

\* The circumstances of one GetFile: a live context and some node behaviour, or a
\* context cancelled before the call (the node is then never reached).
RequestRuns ==
    {[node |-> n, ctxDone |-> FALSE] : n \in NodeScripts}
    \cup {[node |-> [script |-> Always(RespTransport), result |-> ResultEmpty],
           ctxDone |-> TRUE]}

SvcRequestSet ==
    {MkReq(ChainVrsc, TxA, EvkLower, FileGif, TRUE),
     MkReq(ChainVrsc, TxA, EvkLower, EmptyStr, FALSE),
     MkReq(ChainTest, TxA, EvkLower, EmptyStr, TRUE),
     MkReq(ChainVrsc, TxA, EmptyStr, EmptyStr, TRUE),
     MkReq(ChainTest, TxA, EmptyStr, EmptyStr, TRUE),
     MkReq(ChainTest, TxA, EvkShort, EmptyStr, TRUE),
     MkReq(ChainVrsc, TxA, EvkUpper, EmptyStr, TRUE),
     MkReq(ChainVrsc, TxShort, EvkLower, EmptyStr, TRUE),
     MkReq(EmptyStr, TxA, EvkLower, EmptyStr, TRUE),
     MkReq(ChainVrsc, TxB, EvkLower, FileTraversal, TRUE)}

\* The TTL GetFile stores with (24 hours, the cache's default TTL).
ServiceCacheTtl == MaxTtl

NoRequest ==
    [req |-> MkReq(EmptyStr, EmptyStr, EmptyStr, EmptyStr, FALSE), served |-> FALSE,
     err |-> NoError, file |-> NilPtr, trace |-> << >>, cacheErr |-> "none",
     rpcFailed |-> FALSE, ctxDone |-> FALSE, nodeHex |-> NilPtr, resp |-> NilPtr]

Quote == <<"\"">>

RECURSIVE EscapeQuotes(_)
\* strings.ReplaceAll(s, `"`, `\"`)
EscapeQuotes(s) ==
    IF s = EmptyStr THEN EmptyStr
    ELSE (IF Head(s) = "\"" THEN <<"\\", "\"">> ELSE <<Head(s)>>) \o EscapeQuotes(Tail(s))

DecimalDigits == <<"0", "1", "2", "3", "4", "5", "6", "7", "8", "9">>

RECURSIVE Itoa(_)
\* fmt.Sprintf("%d", n) for n >= 0
Itoa(n) ==
    IF n < 10 THEN <<DecimalDigits[n + 1]>>
    ELSE Itoa(n \div 10) \o <<DecimalDigits[(n % 10) + 1]>>

\* FileHandler.setFileHeaders: the headers of a file response, by name.
setFileHeaders(file) ==
    ("Content-Type" :> (IF file.Metadata[1].ContentType # ""
                           THEN file.Metadata[1].ContentType
                           ELSE "application/octet-stream"))
    @@ (IF file.Metadata[1].Filename # EmptyStr
           THEN "Content-Disposition" :> (<<"inline; filename=">> \o Quote
                                          \o EscapeQuotes(file.Metadata[1].Filename)
                                          \o Quote)
           ELSE EmptyMap)
    @@ (IF file.Metadata[1].Size > 0
           THEN "Content-Length" :> Itoa(file.Metadata[1].Size)
           ELSE EmptyMap)
    @@ ("Cache-Control" :> "public, max-age=31536000, immutable")
    @@ ("ETag" :> (Quote \o file.TXID \o Quote))

\* FileHandler.writeError for a domain error; requestID is
\* middleware.GetRequestID(r.Context()), "" when the context holds none.
writeError(err, requestID) ==
    [status |-> err.HTTPStatus, headers |-> ("Content-Type" :> "application/json"),
     body |-> [error |-> err.Code, request_id |-> requestID]]

\* FileHandler.GetFile after fileService.GetFile returned: the response written.  A
\* file without metadata makes the handler panic before it writes anything.
FileResponse(req, file, err) ==
    IF err # NoError THEN writeError(err, "")
    ELSE IF file[1].Metadata = NilPtr
         THEN [status |-> 0, headers |-> EmptyMap, body |-> "panic"]
         ELSE [status |-> 200,
               headers |-> setFileHeaders(
                   IF req.Filename # EmptyStr /\ file[1].Metadata[1].Filename = EmptyStr
                      THEN [file[1] EXCEPT !.Metadata =
                                Ptr([file[1].Metadata[1] EXCEPT !.Filename = req.Filename])]
                      ELSE file[1]),
               body |-> file[1].Content]

NoStore == [ran |-> FALSE, key |-> EmptyStr, reqCancelled |-> FALSE, timedOut |-> FALSE,
            err |-> "nil"]

\* No service running.
SvcIdle ==
    /\ registry = [chains |-> {}, default |-> EmptyStr]
    /\ svcRequests = 0
    /\ svcLast = NoRequest
    /\ svcPending = << >>
    /\ svcStored = NoStore

\* main: the cache (or none), the chain manager with its one client, the service.
SvcInit ==
    /\ registry = [chains |-> {ChainVrsc}, default |-> ChainVrsc]
    /\ svcRequests = 0
    /\ svcLast = NoRequest
    /\ svcPending = << >>
    /\ svcStored = NoStore
    /\ \E type \in {"none", "filesystem", "redis"} :
        /\ cacheCfg = [type |-> type, ttl |-> MaxTtl, maxSize |-> MaxSizeCfg,
                       walk |-> <<CacheKeyA, CacheKeyB>>]
        /\ cache = IF type = "filesystem" THEN FsEmpty ELSE RdEmpty
    /\ now = 0
    /\ cacheOps = 0
    /\ cacheLast = NoCacheOp("none")
    /\ cacheLive = EmptyMap
    /\ rpcPc = "idle"
    /\ \E cfgMaxRetries \in 0..MaxRetriesCfg :
           rpcMaxRetries = NewClientMaxRetries(cfgMaxRetries)
    /\ rpcAttempt = 0
    /\ rpcErr = NilErr
    /\ rpcLastErr = NilErr
    /\ rpcCtxDone = FALSE
    /\ rpcRet = NoRet
    /\ requestCount = 0
    /\ errorCount = 0
    /\ rpcResponses = << >>
    /\ rpcCalls = 0

\* The service over a Redis that is empty or holds, under the keys of the requests
\* to come, values that are not cache entries of this gateway.
CacheErrInit ==
    /\ registry = [chains |-> {ChainVrsc}, default |-> ChainVrsc]
    /\ svcRequests = 0
    /\ svcLast = NoRequest
    /\ svcPending = << >>
    /\ svcStored = NoStore
    /\ cacheCfg = [type |-> "redis", ttl |-> MaxTtl, maxSize |-> MaxSizeCfg,
                   walk |-> <<CacheKeyA, CacheKeyB>>]
    /\ \E keys \in {{}, {CacheKey(r) : r \in SvcRequestSet}} :
           cache = [RdEmpty EXCEPT !.store =
                       [k \in keys |-> [data |-> CorruptEntry, expireAt |-> MaxTtl]]]
    /\ now = 0
    /\ cacheOps = 0
    /\ cacheLast = NoCacheOp("none")
    /\ cacheLive = EmptyMap
    /\ rpcPc = "idle"
    /\ rpcMaxRetries = DefaultMaxRetries
    /\ rpcAttempt = 0
    /\ rpcErr = NilErr
    /\ rpcLastErr = NilErr
    /\ rpcCtxDone = FALSE
    /\ rpcRet = NoRet
    /\ requestCount = 0
    /\ errorCount = 0
    /\ rpcResponses = << >>
    /\ rpcCalls = 0

\* The state after a GetFile that returned r.
Served(req, ctxDone, result, r) ==
    /\ svcLast' = [req |-> req, served |-> TRUE, err |-> r.err, file |-> r.file,
                   trace |-> r.trace,
                   cacheErr |-> IF r.cacheRes = NilPtr THEN "none" ELSE r.cacheRes[1].err,
                   rpcFailed |-> r.calls > 0 /\ r.failed = r.calls,
                   ctxDone |-> ctxDone,
                   nodeHex |-> IF r.calls > r.failed /\ result.isArray
                                      /\ Len(result.items) > 0
                                   THEN result.items[1].objectdata ELSE NilPtr,
                   resp |-> Ptr(FileResponse(req, r.file, r.err))]
    /\ IF r.cacheRes # NilPtr
          THEN CacheDone("Get", CacheKey(req), 0, NilPtr, r.cacheRes[1], cacheLive)
          ELSE UNCHANGED <<cache, cacheLast, cacheLive>>
    /\ requestCount' = requestCount + r.calls
    /\ errorCount' = errorCount + r.failed
    /\ svcPending' = IF r.spawn # NilPtr
                          THEN Append(svcPending,
                                      [key |-> r.spawn[1].key, file |-> r.spawn[1].file])
                          ELSE svcPending

\* Requests for one file of one chain as the handler builds them (UseCache set):
\* under different filenames or none, and under two viewing keys.
SameFileRequests ==
    {MkReq(ChainVrsc, TxA, EvkLower, FileGif, TRUE),
     MkReq(ChainVrsc, TxA, EvkLower, FileTxt, TRUE),
     MkReq(ChainVrsc, TxA, EvkLower, EmptyStr, TRUE),
     MkReq(ChainVrsc, TxA, EvkLower2, FileGif, TRUE)}

\* The node decrypts the file of SameFileRequests under EvkLower only: a request
\* with another viewing key gets no data from it.
NodeAccepts(evk) == evk = EvkLower

AnyRun(req) == RequestRuns

OwnKeyRuns(req) ==
    IF NodeAccepts(req.EVK) THEN RequestRuns
    ELSE {run \in RequestRuns : run.node.result = ResultEmpty}

\* One GetFile call, from entry to return, for a request of reqs under one of the
\* circumstances RunsOf allows for it.
ServeGetFileOf(reqs, RunsOf(_)) ==
    /\ svcRequests < MaxRequests
    /\ svcRequests' = svcRequests + 1
    /\ \E req \in reqs : \E run \in RunsOf(req) :
        \E r \in {GetFile(cacheCfg, cache, registry, rpcMaxRetries, req, run.node.script,
                          run.node.result, run.ctxDone, now)} :
            Served(req, run.ctxDone, run.node.result, r)
    /\ svcStored' = NoStore
    /\ UNCHANGED <<registry, cacheCfg, now, cacheOps, rpcPc, rpcMaxRetries, rpcAttempt,
                   rpcErr, rpcLastErr, rpcCtxDone, rpcRet, rpcResponses, rpcCalls>>

ServeGetFile == ServeGetFileOf(SvcRequestSet, AnyRun)

ServeSameFile == ServeGetFileOf(SameFileRequests, OwnKeyRuns)

\* A plausible slip: the goroutine stores under the request's context.
StoreCtxOfRequest(reqCancelled, timedOut) == reqCancelled \/ timedOut

\* GetFile, lines 95-97: the goroutine's context is context.Background() with a
\* 5-second timeout; it is done when that time has run out.
StoreCtxDone(reqCancelled, timedOut) == timedOut

\* The state after a goroutine's cache.Set of p returned res.
Populated(p, reqCancelled, timedOut, res) ==
    /\ CacheDone("Set", p.key, ServiceCacheTtl, Ptr(p.file), res,
                 IF res.err = "nil"
                     THEN Put(cacheLive, p.key,
                              [file |-> p.file, at |-> now, ttl |-> ServiceCacheTtl])
                     ELSE cacheLive)
    /\ svcStored' = [ran |-> TRUE, key |-> p.key, reqCancelled |-> reqCancelled,
                     timedOut |-> timedOut, err |-> res.err]

\* A goroutine started by GetFile runs: cache.Set under its own 5-second context,
\* which may have run out.  By then the request's context may have been cancelled
\* (the handler has returned, or the client has gone).
PopulateCache ==
    /\ \E i \in 1..Len(svcPending), reqCancelled \in BOOLEAN, timedOut \in BOOLEAN :
        /\ \E res \in {CacheSet(cacheCfg, cache, svcPending[i].key, svcPending[i].file,
                                ServiceCacheTtl, now,
                                StoreCtxDone(reqCancelled, timedOut))} :
               Populated(svcPending[i], reqCancelled, timedOut, res)
        /\ svcPending' = SubSeq(svcPending, 1, i - 1)
                         \o SubSeq(svcPending, i + 1, Len(svcPending))
    /\ UNCHANGED <<registry, svcRequests, svcLast, cacheCfg, now, cacheOps>>

----------------------------------------------------------------------------
(* The chain registry: NewManager, GetChain, GetDefaultChain, HealthCheckAll *)
(* and the readiness probe built on it.                                      *)

ChainIds == {ChainVrsc, ChainTest, ChainPbaas}

\* config.ChainsConfig values: any subset of the ids configured, each enabled or
\* not, and a default that is empty or one of the ids.
ChainConfigs ==
    {[Chains |-> chains, Default |-> default] :
        chains \in UNION {[ids -> BOOLEAN] : ids \in SUBSET ChainIds},
        default \in {EmptyStr} \cup ChainIds}

\* A plausible slip: NewManager registers the disabled chains too.
ConfiguredChains(cfg) == DOMAIN cfg.Chains

\* NewManager, the loop over cfg.Chains.Chains: disabled chains are skipped.
EnabledChains(cfg) == {id \in DOMAIN cfg.Chains : cfg.Chains[id]}

\* NewManager.  first is the id the range over manager.chains yields first.
NewManager(cfg, first) ==
    IF EnabledChains(cfg) = {}
    THEN [manager |-> NilPtr, err |-> "no chains configured"]
    ELSE IF cfg.Default # EmptyStr
         THEN IF cfg.Default \notin EnabledChains(cfg)
              THEN [manager |-> NilPtr, err |-> "default chain not found"]
              ELSE [manager |-> Ptr([chains |-> EnabledChains(cfg),
                                     default |-> cfg.Default]),
                    err |-> "nil"]
         ELSE [manager |-> Ptr([chains |-> EnabledChains(cfg), default |-> first]),
               err |-> "nil"]

\* Manager.GetDefaultChain
GetDefaultChain(reg) == GetChain(reg, reg.default)

NoLookup == [op |-> "none", id |-> EmptyStr, err |-> NoError, client |-> NilPtr]

MgrIdleHealth ==
    /\ hcPc = EmptyMap
    /\ hcNode = EmptyMap
    /\ hcErr = EmptyMap
    /\ hcInfoOk = EmptyMap
    /\ hcCtxDone = FALSE
    /\ hcMu = NilPtr
    /\ hcResults = EmptyMap
    /\ hcWrites = EmptyMap
    /\ readyPc = "idle"
    /\ readyResp = NilPtr
    /\ readyCount = 0

MgrIdle ==
    /\ mgrCfg = [Chains |-> EmptyMap, Default |-> EmptyStr]
    /\ mgrPc = "off"
    /\ manager = NilPtr
    /\ mgrLast = NoLookup
    /\ MgrIdleHealth

MgrInit ==
    /\ mgrCfg \in ChainConfigs
    /\ mgrPc = "new"
    /\ manager = NilPtr
    /\ mgrLast = NoLookup
    /\ MgrIdleHealth

healthVars == <<hcPc, hcNode, hcErr, hcInfoOk, hcCtxDone, hcMu, hcResults, hcWrites,
                readyPc, readyResp, readyCount>>

\* main: chain.NewManager(cfg)
Construct ==
    /\ mgrPc = "new"
    /\ \E first \in IF EnabledChains(mgrCfg) = {} THEN {EmptyStr}
                                                  ELSE EnabledChains(mgrCfg) :
        \E r \in {NewManager(mgrCfg, first)} :
            /\ manager' = r.manager
            /\ mgrPc' = IF r.err = "nil" THEN "up" ELSE "failed"
    /\ UNCHANGED <<mgrCfg, mgrLast, healthVars>>

Looked(op, id, err) ==
    mgrLast' = [op |-> op, id |-> id, err |-> err,
                client |-> IF err = NoError THEN Ptr(id) ELSE NilPtr]

\* Manager.GetChain(chainID).  Lookups only read the registry, which no probe
\* changes, so they are taken between readiness probes and not amid one.
LookupChain ==
    /\ mgrPc = "up"
    /\ readyPc # "waiting"
    /\ \E id \in ChainIds \cup {EmptyStr} : Looked("GetChain", id, GetChain(manager[1], id))
    /\ UNCHANGED <<mgrCfg, mgrPc, manager, healthVars>>

\* Manager.GetDefaultChain()
LookupDefault ==
    /\ mgrPc = "up"
    /\ readyPc # "waiting"
    /\ Looked("GetDefaultChain", manager[1].default, GetDefaultChain(manager[1]))
    /\ UNCHANGED <<mgrCfg, mgrPc, manager, healthVars>>

\* AdminHandler.Ready up to wg.Wait: the health-check context is created and
\* HealthCheckAll starts one goroutine per chain of the registry.
ReadyStart ==
    /\ mgrPc = "up"
    /\ readyPc \in {"idle", "answered"}
    /\ readyCount < MaxReady
    /\ readyPc' = "waiting"
    /\ hcPc' = [id \in manager[1].chains |-> "probe"]
    /\ hcNode' \in [manager[1].chains -> {"ok", "fail", "silent"}]
    /\ hcErr' = EmptyMap
    /\ hcInfoOk' = EmptyMap
    /\ hcCtxDone' = FALSE
    /\ hcMu' = NilPtr
    /\ hcResults' = EmptyMap
    /\ hcWrites' = [id \in manager[1].chains |-> 0]
    /\ readyResp' = NilPtr
    /\ mgrLast' = NoLookup
    /\ UNCHANGED <<mgrCfg, mgrPc, manager, readyCount>>

\* context.WithTimeout: the deadline passes.
Deadline ==
    /\ readyPc = "waiting"
    /\ ~hcCtxDone
    /\ hcCtxDone' = TRUE
    /\ UNCHANGED <<mgrCfg, mgrPc, manager, mgrLast, hcPc, hcNode, hcErr, hcInfoOk, hcMu,
                   hcResults, hcWrites, readyPc, readyResp, readyCount>>

\* Manager.HealthCheck: nil when GetInfo succeeded, a chain error otherwise.
HealthCheck(reg, id, infoOk) ==
    IF GetChain(reg, id) # NoError THEN GetChain(reg, id)
    ELSE IF infoOk THEN NoError ELSE NewChainError

\* The goroutine of chain id: m.HealthCheck(ctx, id) returns.  GetInfo returns when
\* the node answers or when the context is done; an answer that arrives as the
\* deadline passes may still be returned.
Probe ==
    /\ \E id \in DOMAIN hcPc :
        /\ hcPc[id] = "probe"
        /\ hcNode[id] # "silent" \/ hcCtxDone
        /\ \E infoOk \in {ok \in BOOLEAN : /\ ok => hcNode[id] = "ok"
                                           /\ ~ok => (hcNode[id] # "ok" \/ hcCtxDone)} :
            /\ hcInfoOk' = Put(hcInfoOk, id, infoOk)
            /\ hcErr' = Put(hcErr, id, HealthCheck(manager[1], id, infoOk))
        /\ hcPc' = [hcPc EXCEPT ![id] = "lock"]
    /\ UNCHANGED <<mgrCfg, mgrPc, manager, mgrLast, hcNode, hcCtxDone, hcMu, hcResults,
                   hcWrites, readyPc, readyResp, readyCount>>

\* The goroutine of chain id: mu.Lock()
Lock ==
    /\ \E id \in DOMAIN hcPc :
        /\ hcPc[id] = "lock"
        /\ hcMu = NilPtr
        /\ hcMu' = Ptr(id)
        /\ hcPc' = [hcPc EXCEPT ![id] = "write"]
    /\ UNCHANGED <<mgrCfg, mgrPc, manager, mgrLast, hcNode, hcErr, hcInfoOk, hcCtxDone,
                   hcResults, hcWrites, readyPc, readyResp, readyCount>>

\* The goroutine of chain id: results[id] = err; mu.Unlock(); wg.Done()
Write ==
    /\ \E id \in DOMAIN hcPc :
        /\ hcPc[id] = "write"
        /\ hcResults' = Put(hcResults, id, hcErr[id])
        /\ hcWrites' = [hcWrites EXCEPT ![id] = @ + 1]
        /\ hcMu' = NilPtr
        /\ hcPc' = [hcPc EXCEPT ![id] = "done"]
    /\ UNCHANGED <<mgrCfg, mgrPc, manager, mgrLast, hcNode, hcErr, hcInfoOk, hcCtxDone,
                   readyPc, readyResp, readyCount>>

\* A plausible slip: waiting for the first goroutine only.
WaitAny(pcs) == \E id \in DOMAIN pcs : pcs[id] = "done"

\* wg.Wait(): every goroutine has called wg.Done.
WaitDone(pcs) == \A id \in DOMAIN pcs : pcs[id] = "done"

\* A plausible slip: ready only when every chain is healthy.
ReadyAllHealthy(results) ==
    IF \A id \in DOMAIN results : results[id] = NoError
    THEN [status |-> 200, body |-> "ready", chains |-> EmptyMap]
    ELSE [status |-> 503, body |-> "unhealthy",
          chains |-> [id \in {c \in DOMAIN results : results[c] # NoError}
                         |-> results[id].Code]]

\* AdminHandler.Ready after HealthCheckAll returned.
Ready(results) ==
    IF \E id \in DOMAIN results : results[id] = NoError
    THEN [status |-> 200, body |-> "ready", chains |-> EmptyMap]
    ELSE [status |-> 503, body |-> "unhealthy",
          chains |-> [id \in {c \in DOMAIN results : results[c] # NoError}
                         |-> results[id].Code]]

\* wg.Wait returns, HealthCheckAll returns results, Ready answers.
ReadyFinish ==
    /\ readyPc = "waiting"
    /\ WaitDone(hcPc)
    /\ readyResp' = Ptr(Ready(hcResults))
    /\ readyPc' = "answered"
    /\ readyCount' = readyCount + 1
    /\ UNCHANGED <<mgrCfg, mgrPc, manager, mgrLast, hcPc, hcNode, hcErr, hcInfoOk,
                   hcCtxDone, hcMu, hcResults, hcWrites>>

----------------------------------------------------------------------------
(* The middleware stack (server.setupMiddleware, internal/http/middleware)   *)
(* around one handler.  Going down, each middleware runs the part before     *)
(* next.ServeHTTP; coming up, its deferred functions.                        *)

\* Server.setupMiddleware: the stack, outermost first.
setupMiddleware(cfg) ==
    <<"Recoverer", "RequestID", "RealIP", "Logger">>
    \o (IF cfg.metrics THEN <<"Metrics">> ELSE << >>)
    \o <<"Timeout", "SecurityHeaders">>
    \o (IF cfg.cors THEN <<"CORS">> ELSE << >>)
    \o <<"Compress">>

ClientRequestIDs == {"", "client-7"}
UUIDs == {"uuid-1", "uuid-2"}
HandlerRuns == {"ok", "error", "panic", "panic after write"}

NoResponse == [status |-> 0, headers |-> EmptyMap, body |-> << >>, wrote |-> FALSE]

\* w.Header().Set: headers set after the header was written are not sent.
SetHeader(resp, name, value) ==
    IF resp.wrote THEN resp ELSE [resp EXCEPT !.headers = Put(resp.headers, name, value)]

\* w.WriteHeader: only the first call counts.
WriteHeader(resp, status) ==
    IF resp.wrote THEN resp ELSE [resp EXCEPT !.status = status, !.wrote = TRUE]

\* w.Write
WriteBody(resp, chunk) ==
    [WriteHeader(resp, 200) EXCEPT !.body = Append(resp.body, chunk)]

\* Recoverer's deferred function once recover() returned a panic; requestID is
\* GetRequestID(r.Context()) of the request Recoverer received.
Recoverer(resp, requestID) ==
    WriteBody(WriteHeader(SetHeader(resp, "Content-Type", "application/json"), 500),
              [error |-> "internal_server_error", request_id |-> requestID])

\* The handler's response to a failed request, through FileHandler.writeError.
HandlerError(resp, requestID) ==
    WriteBody(WriteHeader(SetHeader(resp, "Content-Type", "application/json"),
                          writeError(NewInvalidInputError, requestID).status),
              writeError(NewInvalidInputError, requestID).body)

HttpIdleRequest ==
    /\ httpPc = "idle"
    /\ httpLevel = 0
    /\ httpIn = ""
    /\ httpCtx = << >>
    /\ httpResp = NoResponse
    /\ httpPanic = FALSE
    /\ httpHandler = "none"
    /\ httpCount = 0

HttpIdle ==
    /\ httpCfg = [metrics |-> FALSE, cors |-> FALSE]
    /\ HttpIdleRequest

\* server.New: the stack depends on whether metrics and CORS are configured.
HttpInit ==
    /\ httpCfg \in [metrics : BOOLEAN, cors : BOOLEAN]
    /\ HttpIdleRequest

\* A request arrives, with or without an X-Request-ID header; its context holds
\* no request id.
Receive ==
    /\ httpPc \in {"idle", "done"}
    /\ httpCount < MaxHttpRequests
    /\ httpIn' \in ClientRequestIDs
    /\ httpPc' = "down"
    /\ httpLevel' = 1
    /\ httpCtx' = <<"">>
    /\ httpResp' = NoResponse
    /\ httpPanic' = FALSE
    /\ httpHandler' = "none"
    /\ UNCHANGED <<httpCfg, httpCount>>

\* The middleware at httpLevel runs up to next.ServeHTTP.  RequestID sets the
\* response header and hands down a request whose context holds the id;
\* SecurityHeaders sets its headers; the others hand down the context they received.
Enter ==
    /\ httpPc = "down"
    /\ \E id \in IF httpIn # "" THEN {httpIn} ELSE UUIDs :
        IF setupMiddleware(httpCfg)[httpLevel] = "RequestID"
        THEN /\ httpResp' = SetHeader(httpResp, "X-Request-ID", id)
             /\ httpCtx' = Append(httpCtx, id)
        ELSE /\ httpResp' = IF setupMiddleware(httpCfg)[httpLevel] = "SecurityHeaders"
                               THEN SetHeader(httpResp, "X-Content-Type-Options", "nosniff")
                               ELSE httpResp
             /\ httpCtx' = Append(httpCtx, httpCtx[httpLevel])
    /\ IF httpLevel = Len(setupMiddleware(httpCfg))
          THEN httpPc' = "handler" /\ UNCHANGED httpLevel
          ELSE httpLevel' = httpLevel + 1 /\ UNCHANGED httpPc
    /\ UNCHANGED <<httpCfg, httpIn, httpPanic, httpHandler, httpCount>>

\* The handler answers, fails through writeError, or panics before or after it
\* has written its header.
Handle ==
    /\ httpPc = "handler"
    /\ \E run \in HandlerRuns :
        /\ httpHandler' = run
        /\ httpPanic' = (run \in {"panic", "panic after write"})
        /\ httpResp' = CASE run = "ok" -> WriteBody(WriteHeader(httpResp, 200), "file")
                         [] run = "error" ->
                                HandlerError(httpResp, httpCtx[Len(httpCtx)])
                         [] run = "panic" -> httpResp
                         [] OTHER -> WriteHeader(httpResp, 200)
    /\ httpPc' = "up"
    /\ UNCHANGED <<httpCfg, httpLevel, httpIn, httpCtx, httpCount>>

\* The middleware at httpLevel is left, by return or by the panic.  Only Recoverer
\* recovers; a panic that leaves the stack aborts the connection.
Unwind ==
    /\ httpPc = "up"
    /\ IF httpPanic /\ setupMiddleware(httpCfg)[httpLevel] = "Recoverer"
          THEN /\ httpResp' = Recoverer(httpResp, httpCtx[httpLevel])
               /\ httpPanic' = FALSE
          ELSE UNCHANGED <<httpResp, httpPanic>>
    /\ IF httpLevel = 1
          THEN /\ httpPc' = "done"
               /\ httpLevel' = 0
               /\ httpCount' = httpCount + 1
          ELSE /\ httpLevel' = httpLevel - 1
               /\ UNCHANGED <<httpPc, httpCount>>
    /\ UNCHANGED <<httpCfg, httpIn, httpCtx, httpHandler>>

----------------------------------------------------------------------------
(* The process (cmd/gateway main): the wait for a signal or a server error,  *)
(* the HTTP server's shutdown and the deferred closes.  The model starts     *)
(* when the server goroutine has been started and ends when main returns; a  *)
(* signal counts while signal.NotifyContext is in force.                     *)

ProcConfigs ==
    [cache : {"none", "filesystem", "redis"},
     chains : {{ChainVrsc}, {ChainVrsc, ChainTest}}]

NoStartCfg ==
    [Port |-> 0, CacheType |-> "", Chains |-> EmptyMap, Default |-> EmptyStr,
     LogLevel |-> ""]

StartIdle ==
    /\ startCfg = NoStartCfg
    /\ procExit = -1

ProcIdle ==
    /\ procPc = "off"
    /\ procCfg = [cache |-> "none", chains |-> {}]
    /\ sigRegistered = FALSE
    /\ sigDone = FALSE
    /\ srvState = "closed"
    /\ srvErr = FALSE
    /\ srvInflight = 0
    /\ shutCtxDone = FALSE
    /\ clientsOpen = {}
    /\ cacheState = "none"
    /\ cleanupPc = "none"
    /\ cleanupRuns = 0
    /\ procLog = << >>

\* main up to its select: cache and registry are built, the signal context is
\* registered, the server goroutine is started and may be serving requests.
ProcInit ==
    /\ procPc = "select"
    /\ procCfg \in ProcConfigs
    /\ sigRegistered = TRUE
    /\ sigDone = FALSE
    /\ srvState = "listening"
    /\ srvErr = FALSE
    /\ srvInflight \in 0..MaxInflight
    /\ shutCtxDone = FALSE
    /\ clientsOpen = procCfg.chains
    /\ cacheState = (IF procCfg.cache = "none" THEN "none" ELSE "open")
    /\ cleanupPc = (IF procCfg.cache = "filesystem" THEN "idle" ELSE "none")
    /\ cleanupRuns = 0
    /\ procLog = << >>

\* SIGINT or SIGTERM is delivered: the signal context is cancelled.
Signal ==
    /\ sigRegistered
    /\ ~sigDone
    /\ sigDone' = TRUE
    /\ \E sig \in {"SIGINT", "SIGTERM"} : procLog' = Append(procLog, sig)
    /\ UNCHANGED <<procPc, procCfg, sigRegistered, srvState, srvErr, srvInflight,
                   shutCtxDone, clientsOpen, cacheState, cleanupPc, cleanupRuns>>

\* httpServer.Start returns an error, which the goroutine sends to serverErr.
ServerFails ==
    /\ srvState = "listening"
    /\ procPc = "select"
    /\ srvState' = "failed"
    /\ srvErr' = TRUE
    /\ UNCHANGED <<procPc, procCfg, sigRegistered, sigDone, srvInflight, shutCtxDone,
                   clientsOpen, cacheState, cleanupPc, cleanupRuns, procLog>>

\* main's select returns and the shutdown context is created.
Select ==
    /\ procPc = "select"
    /\ sigDone \/ srvErr
    /\ procPc' = "shutdown"
    /\ UNCHANGED <<procCfg, sigRegistered, sigDone, srvState, srvErr, srvInflight,
                   shutCtxDone, clientsOpen, cacheState, cleanupPc, cleanupRuns, procLog>>

\* httpServer.Shutdown(shutdownCtx) is called: the listeners are closed.
Shutdown ==
    /\ procPc = "shutdown"
    /\ procPc' = "draining"
    /\ srvState' = (IF srvState = "listening" THEN "draining" ELSE srvState)
    /\ procLog' = Append(procLog, "http shutdown")
    /\ UNCHANGED <<procCfg, sigRegistered, sigDone, srvErr, srvInflight, shutCtxDone,
                   clientsOpen, cacheState, cleanupPc, cleanupRuns>>

\* A request in flight is answered.
RequestDone ==
    /\ procPc \notin {"off", "exited"}
    /\ srvInflight > 0
    /\ srvInflight' = srvInflight - 1
    /\ UNCHANGED <<procPc, procCfg, sigRegistered, sigDone, srvState, srvErr, shutCtxDone,
                   clientsOpen, cacheState, cleanupPc, cleanupRuns, procLog>>

\* cfg.Server.ShutdownTimeout has passed since the shutdown context was created.
ShutdownTimeout ==
    /\ procPc \in {"shutdown", "draining", "wait"}
    /\ ~shutCtxDone
    /\ shutCtxDone' = TRUE
    /\ UNCHANGED <<procPc, procCfg, sigRegistered, sigDone, srvState, srvErr, srvInflight,
                   clientsOpen, cacheState, cleanupPc, cleanupRuns, procLog>>

\* A plausible slip: a shutdown that waits for the requests without a deadline.
ShutdownReturnsWhenIdle(inflight, ctxDone) == inflight = 0

\* http.Server.Shutdown returns when no request is in flight or its context is done.
ShutdownReturns(inflight, ctxDone) == inflight = 0 \/ ctxDone

ShutdownReturn ==
    /\ procPc = "draining"
    /\ ShutdownReturns(srvInflight, shutCtxDone)
    /\ procPc' = "wait"
    /\ shutDrained' = (srvInflight = 0 /\ ~shutCtxDone)
    /\ UNCHANGED shutReport
    /\ srvState' = (IF srvInflight = 0 /\ srvState = "draining" THEN "closed" ELSE srvState)
    /\ UNCHANGED <<procCfg, sigRegistered, sigDone, srvErr, srvInflight, shutCtxDone,
                   clientsOpen, cacheState, cleanupPc, cleanupRuns, procLog>>

MsgTimeout == "Shutdown timeout exceeded, forcing exit"
MsgGraceful == "Server stopped gracefully"

\* shutdownCtx.Err(): the context has a deadline and shutdownCancel is only
\* deferred, so once Done is closed the error is DeadlineExceeded.
ShutdownCtxErr(done) == IF done THEN "context deadline exceeded" ELSE "nil"

\* main, lines 153-157: the message logged after the wait.
ShutdownMessage(err) ==
    IF err = "context deadline exceeded" THEN MsgTimeout ELSE MsgGraceful

\* No shutdown yet.
ShutIdle == shutDrained = FALSE /\ shutReport = ""

\* <-shutdownCtx.Done() returns and the outcome is logged; main returns and its
\* deferred calls start, last registered first: shutdownCancel, then stop, which
\* unregisters the signals.
AwaitShutdownCtx ==
    /\ procPc = "wait"
    /\ shutCtxDone
    /\ procPc' = "close clients"
    /\ shutReport' = ShutdownMessage(ShutdownCtxErr(shutCtxDone))
    /\ UNCHANGED shutDrained
    /\ sigRegistered' = FALSE
    /\ UNCHANGED <<procCfg, sigDone, srvState, srvErr, srvInflight, shutCtxDone,
                   clientsOpen, cacheState, cleanupPc, cleanupRuns, procLog>>

\* chainManager.Close: the clients are closed one after the other, in map order.
CloseClient ==
    /\ procPc = "close clients"
    /\ \E id \in clientsOpen :
        /\ clientsOpen' = clientsOpen \ {id}
        /\ procPc' = (IF clientsOpen = {id} THEN "close cache" ELSE procPc)
    /\ procLog' = Append(procLog, "client closed")
    /\ UNCHANGED <<procCfg, sigRegistered, sigDone, srvState, srvErr, srvInflight,
                   shutCtxDone, cacheState, cleanupPc, cleanupRuns>>

\* The deferred cache close: nothing without a cache; RedisCache.Close closes the
\* client; FilesystemCache.Close closes stopCleanup and waits for the goroutine.
CacheClose ==
    /\ procPc = "close cache"
    /\ procPc' = (IF procCfg.cache = "filesystem" THEN "wait cleanup" ELSE "exiting")
    /\ cacheState' = (CASE procCfg.cache = "filesystem" -> "closing"
                        [] procCfg.cache = "redis" -> "closed"
                        [] OTHER -> cacheState)
    /\ procLog' = (IF procCfg.cache = "redis" THEN Append(procLog, "cache closed")
                                               ELSE procLog)
    /\ UNCHANGED <<procCfg, sigRegistered, sigDone, srvState, srvErr, srvInflight,
                   shutCtxDone, clientsOpen, cleanupPc, cleanupRuns>>

\* cleanupLoop: the ticker fires and cleanup starts.
CleanupTick ==
    /\ procPc \notin {"off", "exited"}
    /\ cleanupPc = "idle"
    /\ cleanupRuns < MaxCleanups
    /\ cleanupPc' = "cleaning"
    /\ cleanupRuns' = cleanupRuns + 1
    /\ UNCHANGED <<procPc, procCfg, sigRegistered, sigDone, srvState, srvErr, srvInflight,
                   shutCtxDone, clientsOpen, cacheState, procLog>>

\* cleanupLoop: cleanup returns.
CleanupDone ==
    /\ procPc \notin {"off", "exited"}
    /\ cleanupPc = "cleaning"
    /\ cleanupPc' = "idle"
    /\ UNCHANGED <<procPc, procCfg, sigRegistered, sigDone, srvState, srvErr, srvInflight,
                   shutCtxDone, clientsOpen, cacheState, cleanupRuns, procLog>>

\* cleanupLoop: stopCleanup is closed, the goroutine returns.
CleanupExit ==
    /\ procPc \notin {"off", "exited"}
    /\ cleanupPc = "idle"
    /\ cacheState = "closing"
    /\ cleanupPc' = "exited"
    /\ UNCHANGED <<procPc, procCfg, sigRegistered, sigDone, srvState, srvErr, srvInflight,
                   shutCtxDone, clientsOpen, cacheState, cleanupRuns, procLog>>

\* FilesystemCache.Close: wg.Wait returns.
CacheClosed ==
    /\ procPc = "wait cleanup"
    /\ cleanupPc = "exited"
    /\ cacheState' = "closed"
    /\ procPc' = "exiting"
    /\ procLog' = Append(procLog, "cache closed")
    /\ UNCHANGED <<procCfg, sigRegistered, sigDone, srvState, srvErr, srvInflight,
                   shutCtxDone, clientsOpen, cleanupPc, cleanupRuns>>

\* The last deferred call has returned: main returns and the process exits with
\* status 0.
Exit ==
    /\ procPc = "exiting"
    /\ procPc' = "exited"
    /\ procExit' = 0
    /\ UNCHANGED startCfg
    /\ procLog' = Append(procLog, "exit")
    /\ UNCHANGED <<procCfg, sigRegistered, sigDone, srvState, srvErr, srvInflight,
                   shutCtxDone, clientsOpen, cacheState, cleanupPc, cleanupRuns>>

\* main has shut the server down and closed the clients; the local-fs cache is open
\* and its deferred Close is the next call.
SweeperInit ==
    /\ procPc = "close cache"
    /\ procCfg = [cache |-> "filesystem", chains |-> {ChainVrsc}]
    /\ sigRegistered = FALSE
    /\ sigDone = TRUE
    /\ srvState = "closed"
    /\ srvErr = FALSE
    /\ srvInflight = 0
    /\ shutCtxDone = TRUE
    /\ clientsOpen = {}
    /\ cacheState = "open"
    /\ cleanupPc = "idle"
    /\ cleanupRuns = 0
    /\ procLog = <<"SIGINT", "http shutdown", "client closed">>

----------------------------------------------------------------------------
(* Startup (cmd/gateway main, config.Load): the configuration is loaded and  *)
(* validated, logger, cache and registry are built, the server is started.   *)
(* A failed step ends the process through log.Fatalf or zerolog's Fatal,     *)
(* which call os.Exit(1) without running the deferred calls.                 *)

PortMax == 65535
MaxRetriesLimit == 10

ValidCacheTypes == {"filesystem", "redis", "memcached", "multi"}
ValidLevels == {"debug", "info", "warn", "error"}

\* ChainConfig.Validate; the RPC URL, user, password and timeout are taken as given.
ChainConfigValidate(cc) ==
    IF ~cc.Enabled THEN "nil"
    ELSE IF cc.MaxRetries < 0 \/ cc.MaxRetries > MaxRetriesLimit
         THEN "max_retries must be between 0 and 10"
         ELSE "nil"

\* Config.Validate
ConfigValidate(c) ==
    IF c.Port < 1 \/ c.Port > PortMax THEN "invalid server port"
    ELSE IF DOMAIN c.Chains = {} THEN "no chains configured"
    ELSE IF c.Default # EmptyStr /\ c.Default \notin DOMAIN c.Chains
         THEN "default chain not found in chains"
    ELSE IF \E id \in DOMAIN c.Chains : ChainConfigValidate(c.Chains[id]) # "nil"
         THEN "invalid chain config"
    ELSE IF c.CacheType \notin ValidCacheTypes THEN "invalid cache type"
    ELSE IF c.LogLevel \notin ValidLevels THEN "invalid log level"
    ELSE "nil"

\* initializeCache: which cache main gets, or the error.  built tells whether the
\* constructor of a filesystem or Redis cache succeeded.
initializeCache(type, built) ==
    CASE type \in {"filesystem", "redis"} ->
            IF built THEN [cache |-> type, err |-> "nil"]
                     ELSE [cache |-> "none", err |-> "failed to initialize cache"]
      [] type \in {"none", ""} -> [cache |-> "none", err |-> "nil"]
      [] OTHER -> [cache |-> "none", err |-> "unsupported cache type"]

\* The chains section as chain.NewManager reads it.
ManagerCfg(c) ==
    [Chains |-> [id \in DOMAIN c.Chains |-> c.Chains[id].Enabled], Default |-> c.Default]

StartChainConfigs == [Enabled : BOOLEAN, MaxRetries : {0, MaxRetriesLimit + 1}]

StartConfigs ==
    [Port : {0, 8080},
     CacheType : {"none", "filesystem", "redis", "memcached"},
     Chains : UNION {[ids -> StartChainConfigs] : ids \in SUBSET {ChainVrsc, ChainTest}},
     Default : {EmptyStr, ChainVrsc, ChainTest},
     LogLevel : {"info", "trace"}]

\* main has parsed its flags.
StartInit ==
    /\ startCfg \in StartConfigs
    /\ procExit = -1
    /\ procPc = "load"
    /\ procCfg = [cache |-> "none", chains |-> {}]
    /\ sigRegistered = FALSE
    /\ sigDone = FALSE
    /\ srvState = "closed"
    /\ srvErr = FALSE
    /\ srvInflight = 0
    /\ shutCtxDone = FALSE
    /\ clientsOpen = {}
    /\ cacheState = "none"
    /\ cleanupPc = "none"
    /\ cleanupRuns = 0
    /\ procLog = << >>

\* log.Fatalf / appLogger.Fatal(): os.Exit(1).
Fatal(what) ==
    /\ procPc' = "exited"
    /\ procExit' = 1
    /\ procLog' = Append(procLog, what)

\* main: config.Load
LoadConfig ==
    /\ procPc = "load"
    /\ IF ConfigValidate(startCfg) # "nil"
          THEN Fatal("fatal: configuration")
          ELSE procPc' = "logger" /\ UNCHANGED <<procExit, procLog>>
    /\ UNCHANGED <<procCfg, sigRegistered, sigDone, srvState, srvErr, srvInflight,
                   shutCtxDone, clientsOpen, cacheState, cleanupPc, cleanupRuns,
                   startCfg>>

\* main: logger.New
InitLogger ==
    /\ procPc = "logger"
    /\ \E ok \in BOOLEAN :
        IF ok THEN procPc' = "cache" /\ UNCHANGED <<procExit, procLog>>
              ELSE Fatal("fatal: logger")
    /\ UNCHANGED <<procCfg, sigRegistered, sigDone, srvState, srvErr, srvInflight,
                   shutCtxDone, clientsOpen, cacheState, cleanupPc, cleanupRuns,
                   startCfg>>

\* main: initializeCache and the deferred cache.Close
InitializeCache ==
    /\ procPc = "cache"
    /\ \E built \in BOOLEAN :
        \E r \in {initializeCache(startCfg.CacheType, built)} :
            IF r.err # "nil"
            THEN Fatal("fatal: cache") /\ UNCHANGED <<procCfg, cacheState, cleanupPc>>
            ELSE /\ procPc' = "manager"
                 /\ procCfg' = [procCfg EXCEPT !.cache = r.cache]
                 /\ cacheState' = (IF r.cache = "none" THEN "none" ELSE "open")
                 /\ cleanupPc' = (IF r.cache = "filesystem" THEN "idle" ELSE "none")
                 /\ UNCHANGED <<procExit, procLog>>
    /\ UNCHANGED <<sigRegistered, sigDone, srvState, srvErr, srvInflight, shutCtxDone,
                   clientsOpen, cleanupRuns, startCfg>>

\* main: initializeChainManager and the deferred chainManager.Close
InitializeManager ==
    /\ procPc = "manager"
    /\ \E first \in IF EnabledChains(ManagerCfg(startCfg)) = {}
                       THEN {EmptyStr} ELSE EnabledChains(ManagerCfg(startCfg)) :
        \E r \in {NewManager(ManagerCfg(startCfg), first)} :
            IF r.err # "nil"
            THEN Fatal("fatal: chain manager") /\ UNCHANGED <<procCfg, clientsOpen>>
            ELSE /\ procPc' = "server"
                 /\ procCfg' = [procCfg EXCEPT !.chains = r.manager[1].chains]
                 /\ clientsOpen' = r.manager[1].chains
                 /\ UNCHANGED <<procExit, procLog>>
    /\ UNCHANGED <<sigRegistered, sigDone, srvState, srvErr, srvInflight, shutCtxDone,
                   cacheState, cleanupPc, cleanupRuns, startCfg>>

\* main: server.New, signal.NotifyContext and the goroutine calling httpServer.Start
StartServer ==
    /\ procPc = "server"
    /\ procPc' = "select"
    /\ sigRegistered' = TRUE
    /\ srvState' = "listening"
    /\ UNCHANGED <<procCfg, sigDone, srvErr, srvInflight, shutCtxDone, clientsOpen,
                   cacheState, cleanupPc, cleanupRuns, procLog, startCfg, procExit>>

\* The listening server accepts a request.
RequestArrives ==
    /\ srvState = "listening"
    /\ startCfg # NoStartCfg
    /\ srvInflight < MaxInflight
    /\ srvInflight' = srvInflight + 1
    /\ UNCHANGED <<procPc, procCfg, sigRegistered, sigDone, srvState, srvErr,
                   shutCtxDone, clientsOpen, cacheState, cleanupPc, cleanupRuns,
                   procLog, startCfg, procExit>>

----------------------------------------------------------------------------
(* FilesystemCache under concurrent callers: two Gets, one Set and the sweeper *)
(* on the files of one key, one file-system call per step                      *)

Getters == {"get1", "get2"}
Writers == {"set", "cleanup"}

\* The ttl of the cache, and the entries written before and by the Set.
LkTtl == MaxTtl - 1
OldEntry == "old"
NewEntry == "new"

NoGet == [kind |-> "none", content |-> "", meta |-> ""]

\* No cache under concurrent callers.
LockIdle ==
    /\ mu = [readers |-> {}, writer |-> "none"]
    /\ lkFiles = [bin |-> NilPtr, meta |-> NilPtr]
    /\ lkNow = 0
    /\ gPc = [g \in Getters |-> "done"]
    /\ gRes = [g \in Getters |-> NoGet]
    /\ wPc = [w \in Writers |-> "done"]

\* A cache that holds one entry with metadata, written at time 0.
LockInit ==
    /\ mu = [readers |-> {}, writer |-> "none"]
    /\ lkFiles = [bin |-> Ptr([content |-> OldEntry, mtime |-> 0]),
                  meta |-> Ptr(OldEntry)]
    /\ lkNow = 0
    /\ gPc = [g \in Getters |-> "start"]
    /\ gRes = [g \in Getters |-> NoGet]
    /\ wPc = [w \in Writers |-> "start"]

\* Get, line 89: c.mu.RLock()
GetRLock(g) ==
    /\ gPc[g] = "start"
    /\ mu.writer = "none"
    /\ mu' = [mu EXCEPT !.readers = @ \cup {g}]
    /\ gPc' = [gPc EXCEPT ![g] = "stat"]
    /\ UNCHANGED <<lkFiles, lkNow, gRes, wPc>>

\* Get, lines 96-110: os.Stat and the expiry check; a miss returns and unlocks.
GetStat(g) ==
    /\ gPc[g] = "stat"
    /\ IF lkFiles.bin = NilPtr
           THEN /\ gPc' = [gPc EXCEPT ![g] = "done"]
                /\ gRes' = [gRes EXCEPT ![g].kind = "miss"]
                /\ mu' = [mu EXCEPT !.readers = @ \ {g}]
       ELSE IF lkNow - lkFiles.bin[1].mtime > LkTtl
           THEN /\ gPc' = [gPc EXCEPT ![g] = "remove"]
                /\ UNCHANGED <<gRes, mu>>
       ELSE /\ gPc' = [gPc EXCEPT ![g] = "read"]
            /\ UNCHANGED <<gRes, mu>>
    /\ UNCHANGED <<lkFiles, lkNow, wPc>>

\* Get, lines 111-113: the expired files are removed; Miss.
GetRemove(g) ==
    /\ gPc[g] = "remove"
    /\ lkFiles' = [bin |-> NilPtr, meta |-> NilPtr]
    /\ gPc' = [gPc EXCEPT ![g] = "done"]
    /\ gRes' = [gRes EXCEPT ![g].kind = "miss"]
    /\ mu' = [mu EXCEPT !.readers = @ \ {g}]
    /\ UNCHANGED <<lkNow, wPc>>

\* Get, lines 117-121: os.ReadFile(contentPath)
GetReadContent(g) ==
    /\ gPc[g] = "read"
    /\ IF lkFiles.bin = NilPtr
           THEN /\ gPc' = [gPc EXCEPT ![g] = "done"]
                /\ gRes' = [gRes EXCEPT ![g].kind = "error"]
                /\ mu' = [mu EXCEPT !.readers = @ \ {g}]
           ELSE /\ gPc' = [gPc EXCEPT ![g] = "meta"]
                /\ gRes' = [gRes EXCEPT ![g].content = lkFiles.bin[1].content]
                /\ UNCHANGED mu
    /\ UNCHANGED <<lkFiles, lkNow, wPc>>

\* Get, lines 124-139: os.ReadFile(metaPath); a hit, with zero metadata if the
\* file cannot be read.
GetReadMeta(g) ==
    /\ gPc[g] = "meta"
    /\ gPc' = [gPc EXCEPT ![g] = "done"]
    /\ gRes' = [gRes EXCEPT ![g].kind = "hit",
                            ![g].meta = IF lkFiles.meta = NilPtr THEN ""
                                        ELSE lkFiles.meta[1]]
    /\ mu' = [mu EXCEPT !.readers = @ \ {g}]
    /\ UNCHANGED <<lkFiles, lkNow, wPc>>

\* Set, line 150, and cleanup, line 384: c.mu.Lock()
WriterLock(w) ==
    /\ wPc[w] = "start"
    /\ mu = [readers |-> {}, writer |-> "none"]
    /\ mu' = [mu EXCEPT !.writer = w]
    /\ wPc' = [wPc EXCEPT ![w] = IF w = "set" THEN "content" ELSE "walk"]
    /\ UNCHANGED <<lkFiles, lkNow, gPc, gRes>>

\* Set, line 172: os.WriteFile(contentPath, ...)
SetWriteContent ==
    /\ wPc["set"] = "content"
    /\ lkFiles' = [lkFiles EXCEPT !.bin = Ptr([content |-> NewEntry, mtime |-> lkNow])]
    /\ wPc' = [wPc EXCEPT !["set"] = "meta"]
    /\ UNCHANGED <<mu, lkNow, gPc, gRes>>

\* Set, lines 177-188: os.WriteFile(metaPath, ...); return and unlock.
SetWriteMeta ==
    /\ wPc["set"] = "meta"
    /\ lkFiles' = [lkFiles EXCEPT !.meta = Ptr(NewEntry)]
    /\ wPc' = [wPc EXCEPT !["set"] = "done"]
    /\ mu' = [mu EXCEPT !.writer = "none"]
    /\ UNCHANGED <<lkNow, gPc, gRes>>

\* cleanup, lines 387-411: the walk removes the entry if it is expired; unlock.
CleanupRemove ==
    /\ wPc["cleanup"] = "walk"
    /\ lkFiles' = IF lkFiles.bin # NilPtr /\ lkNow - lkFiles.bin[1].mtime > LkTtl
                      THEN [bin |-> NilPtr, meta |-> NilPtr]
                      ELSE lkFiles
    /\ wPc' = [wPc EXCEPT !["cleanup"] = "done"]
    /\ mu' = [mu EXCEPT !.writer = "none"]
    /\ UNCHANGED <<lkNow, gPc, gRes>>

\* Time passes.
LkTick ==
    /\ lkNow < MaxTime
    /\ lkNow' = lkNow + 1
    /\ UNCHANGED <<mu, lkFiles, gPc, gRes, wPc>>

----------------------------------------------------------------------------
(* time.Duration and the request deadline.  A Duration is an int64 count of   *)
(* nanoseconds; it is held as its eight bytes, lowest first, in two's         *)
(* complement, and multiplied as Go multiplies int64: modulo 2^64.            *)

MaxReadTimeoutCfg == 30     \* the largest server.read_timeout configured, in seconds
DefaultReadTimeout == 10    \* seconds

RECURSIVE Int64Bytes(_, _)
\* The lowest k bytes of n >= 0.
Int64Bytes(n, k) ==
    IF k = 0 THEN << >> ELSE <<n % 256>> \o Int64Bytes(n \div 256, k - 1)

Int64(n) == Int64Bytes(n, 8)

RECURSIVE ColumnSum(_, _, _, _)
\* The sum of a[i] * b[k + 1 - i] for i = from..k.
ColumnSum(a, b, k, from) ==
    IF from > k THEN 0 ELSE a[from] * b[k + 1 - from] + ColumnSum(a, b, k, from + 1)

RECURSIVE MulCarry(_, _, _, _)
MulCarry(a, b, k, carry) ==
    IF k > 8 THEN << >>
    ELSE LET t == ColumnSum(a, b, k, 1) + carry
         IN  <<t % 256>> \o MulCarry(a, b, k + 1, t \div 256)

\* a * b of two int64: the low 64 bits of the product.
Int64Mul(a, b) == MulCarry(a, b, 1, 0)

Int64Negative(a) == a[8] >= 128
Int64Positive(a) == ~Int64Negative(a) /\ a # Int64(0)

\* time.Second
Second == Int64(1000000000)

\* n * time.Second for a small n
Seconds(n) == Int64Mul(Int64(n), Second)

\* server.New / setupMiddleware: time.Duration(ReadTimeout) * time.Second
MiddlewareTimeout(readTimeout) == Int64Mul(readTimeout, Second)

\* context.WithTimeout(parent, timeout) as seen at once: done with the parent's
\* error if the parent is done, expired if the deadline is not in the future.
WithTimeoutErr(parentDone, timeout) ==
    IF parentDone THEN "context canceled"
    ELSE IF ~Int64Positive(timeout) THEN "context deadline exceeded"
    ELSE "nil"

\* No server.
TmIdle ==
    /\ tmPc = "load"
    /\ tmCfg = 0
    /\ tmReadTimeout = Int64(0)
    /\ tmTimeout = Int64(0)
    /\ tmParentDone = FALSE
    /\ tmCtxErr = ""

\* A configuration whose server.read_timeout is a number of seconds or is absent.
TmInit ==
    /\ tmPc = "load"
    /\ tmCfg \in 0..MaxReadTimeoutCfg
    /\ tmReadTimeout = Int64(0)
    /\ tmTimeout = Int64(0)
    /\ tmParentDone = FALSE
    /\ tmCtxErr = ""

\* config.Load: setDefaults gives an absent read_timeout 10 * time.Second.
LoadReadTimeout ==
    /\ tmPc = "load"
    /\ tmPc' = "new"
    /\ tmReadTimeout' = Seconds(IF tmCfg = 0 THEN DefaultReadTimeout ELSE tmCfg)
    /\ UNCHANGED <<tmCfg, tmTimeout, tmParentDone, tmCtxErr>>

\* server.New: setupMiddleware hands the timeout to middleware.Timeout.
SetupTimeout ==
    /\ tmPc = "new"
    /\ tmPc' = "serving"
    /\ tmTimeout' = MiddlewareTimeout(tmReadTimeout)
    /\ UNCHANGED <<tmCfg, tmReadTimeout, tmParentDone, tmCtxErr>>

\* A request reaches the Timeout middleware, its client still there or gone.
TimeoutWrap ==
    /\ tmPc = "serving"
    /\ tmPc' = "wrapped"
    /\ tmParentDone' \in BOOLEAN
    /\ UNCHANGED <<tmCfg, tmReadTimeout, tmTimeout, tmCtxErr>>

\* next.ServeHTTP: the handler begins under the context of WithTimeout.
TimeoutNext ==
    /\ tmPc = "wrapped"
    /\ tmPc' = "handler"
    /\ tmCtxErr' = WithTimeoutErr(tmParentDone, tmTimeout)
    /\ UNCHANGED <<tmCfg, tmReadTimeout, tmTimeout, tmParentDone>>

----------------------------------------------------------------------------
(* middleware.RateLimiter (internal/http/middleware/ratelimit.go) *)

MaxRate == 2
MaxVisits == 4
MaxRlTime == 3
StatusTooManyRequests == 429

ClientIPs == {"10.0.0.1", "10.0.0.2"}

\* RateLimiter.allow: the visitors map afterwards and the verdict.
allow(vs, ip, t, rate, window) ==
    IF ip \notin DOMAIN vs
        THEN [visitors |-> Put(vs, ip, [tokens |-> rate - 1, lastSeen |-> t,
                                        lastRefill |-> t]),
              ok |-> TRUE]
    ELSE LET refill == t - vs[ip].lastRefill >= window
             tokens == IF refill THEN rate ELSE vs[ip].tokens
             lastRefill == IF refill THEN t ELSE vs[ip].lastRefill
         IN  [visitors |-> Put(vs, ip, [tokens |-> IF tokens > 0 THEN tokens - 1
                                                                 ELSE tokens,
                                        lastSeen |-> t, lastRefill |-> lastRefill]),
              ok |-> tokens > 0]

\* No rate limiter.
RlIdle ==
    /\ rlCfg = [rate |-> 0, window |-> 0]
    /\ visitors = EmptyMap
    /\ rlNow = 0
    /\ rlLog = << >>

\* NewRateLimiter
RlInit ==
    /\ \E rate \in 1..MaxRate, window \in 1..2 :
            rlCfg = [rate |-> rate, window |-> window]
    /\ visitors = EmptyMap
    /\ rlNow = 0
    /\ rlLog = << >>

\* The handler of RateLimiter.RateLimit: 429 unless allow admits the request.
RateLimit ==
    /\ Len(rlLog) < MaxVisits
    /\ \E ip \in ClientIPs :
        \E r \in {allow(visitors, ip, rlNow, rlCfg.rate, rlCfg.window)} :
            /\ visitors' = r.visitors
            /\ rlLog' = Append(rlLog, [ip |-> ip, at |-> rlNow, admitted |-> r.ok,
                                       status |-> IF r.ok THEN StatusOK
                                                  ELSE StatusTooManyRequests])
    /\ UNCHANGED <<rlCfg, rlNow>>

\* cleanupVisitors: the ticker fires.
CleanupVisitors ==
    /\ \E ip \in DOMAIN visitors : rlNow - visitors[ip].lastSeen > rlCfg.window * 2
    /\ visitors' = [ip \in {x \in DOMAIN visitors :
                               ~(rlNow - visitors[x].lastSeen > rlCfg.window * 2)}
                       |-> visitors[ip]]
    /\ UNCHANGED <<rlCfg, rlNow, rlLog>>

\* Time passes.
RlTick ==
    /\ rlNow < MaxRlTime
    /\ rlNow' = rlNow + 1
    /\ UNCHANGED <<rlCfg, visitors, rlLog>>

----------------------------------------------------------------------------
(* Specifications.  Each one exercises one part of the program; the          *)
(* variables of the other parts keep their initial values.                   *)

KeyIdle ==
    /\ keyPc = "off"
    /\ keyReqA = MkReq(EmptyStr, EmptyStr, EmptyStr, EmptyStr, FALSE)
    /\ keyReqB = MkReq(EmptyStr, EmptyStr, EmptyStr, EmptyStr, FALSE)
    /\ keyA = EmptyStr /\ keyB = EmptyStr
    /\ keyErrA = NoError /\ keyErrB = NoError

\* FileRequest.Validate and FileRequest.CacheKey on pairs of requests.
InitKey == KeyInit /\ RpcInit /\ CacheIdle /\ SvcIdle /\ MgrIdle /\ HttpIdle /\ ProcIdle /\ StartIdle /\ RlIdle /\ RpcCfgIdle /\ LockIdle /\ RpcWaitIdle /\ ConcIdle /\ DzIdle /\ ShutIdle /\ TmIdle

NextKey ==
    KeyCompute /\ UNCHANGED <<rpcVars, cacheVars, svcVars, mgrVars, httpVars, procVars, startVars,
                               rlVars, rpcCfgVars, lockVars, rpcWaitVars, concVars, dzVars, shutVars, tmVars>>

SpecKey == InitKey /\ [][NextKey]_vars

\* One RPC client and the Calls made on it.
InitRPC == RpcInit /\ KeyIdle /\ CacheIdle /\ SvcIdle /\ MgrIdle /\ HttpIdle /\ ProcIdle /\ StartIdle /\ RlIdle /\ RpcCfgIdle /\ LockIdle /\ RpcWaitIdle /\ ConcIdle /\ DzIdle /\ ShutIdle /\ TmIdle

NextRPC ==
    \/ NewClient /\ UNCHANGED <<keyVars, cacheVars, svcVars, mgrVars, httpVars, procVars, startVars, rlVars, lockVars, concVars, dzVars, shutVars, tmVars>>
    \/ CallStart /\ UNCHANGED <<keyVars, cacheVars, svcVars, mgrVars, httpVars, procVars, startVars, rlVars, rpcCfgVars, lockVars, concVars, dzVars, shutVars, tmVars>>
    \/ CancelCtx /\ UNCHANGED <<keyVars, cacheVars, svcVars, mgrVars, httpVars, procVars, startVars, rlVars, rpcCfgVars, lockVars, rpcWaitVars, concVars, dzVars, shutVars, tmVars>>
    \/ CallWait /\ UNCHANGED <<keyVars, cacheVars, svcVars, mgrVars, httpVars, procVars, startVars, rlVars, rpcCfgVars, lockVars, concVars, dzVars, shutVars, tmVars>>
    \/ CallDo /\ UNCHANGED <<keyVars, cacheVars, svcVars, mgrVars, httpVars, procVars, startVars, rlVars, rpcCfgVars, lockVars, rpcWaitVars, concVars, dzVars, shutVars, tmVars>>
    \/ CallCheck /\ UNCHANGED <<keyVars, cacheVars, svcVars, mgrVars, httpVars, procVars, startVars, rlVars, rpcCfgVars, lockVars, rpcWaitVars, concVars, dzVars, shutVars, tmVars>>

SpecRPC == InitRPC /\ [][NextRPC]_vars

\* One cache, filesystem or Redis, and the operations made on it over time.
InitCache == CacheInit /\ KeyIdle /\ RpcInit /\ SvcIdle /\ MgrIdle /\ HttpIdle /\ ProcIdle /\ StartIdle /\ RlIdle /\ RpcCfgIdle /\ LockIdle /\ RpcWaitIdle /\ ConcIdle /\ DzIdle /\ ShutIdle /\ TmIdle

NextCache ==
    \/ DoGet /\ UNCHANGED <<keyVars, rpcVars, svcVars, mgrVars, httpVars, procVars, startVars, rlVars, rpcCfgVars, lockVars, rpcWaitVars, concVars, dzVars, shutVars, tmVars>>
    \/ DoSet /\ UNCHANGED <<keyVars, rpcVars, svcVars, mgrVars, httpVars, procVars, startVars, rlVars, rpcCfgVars, lockVars, rpcWaitVars, concVars, dzVars, shutVars, tmVars>>
    \/ DoDelete /\ UNCHANGED <<keyVars, rpcVars, svcVars, mgrVars, httpVars, procVars, startVars, rlVars, rpcCfgVars, lockVars, rpcWaitVars, concVars, dzVars, shutVars, tmVars>>
    \/ DoClear /\ UNCHANGED <<keyVars, rpcVars, svcVars, mgrVars, httpVars, procVars, startVars, rlVars, rpcCfgVars, lockVars, rpcWaitVars, concVars, dzVars, shutVars, tmVars>>
    \/ Sweep /\ UNCHANGED <<keyVars, rpcVars, svcVars, mgrVars, httpVars, procVars, startVars, rlVars, rpcCfgVars, lockVars, rpcWaitVars, concVars, dzVars, shutVars, tmVars>>
    \/ Tick /\ UNCHANGED <<keyVars, rpcVars, svcVars, mgrVars, httpVars, procVars, startVars, rlVars, rpcCfgVars, lockVars, rpcWaitVars, concVars, dzVars, shutVars, tmVars>>

SpecCache == InitCache /\ [][NextCache]_vars

\* The local-fs cache alone, every Set passing the cache's ttl.
InitFs == FsInit /\ KeyIdle /\ RpcInit /\ SvcIdle /\ MgrIdle /\ HttpIdle /\ ProcIdle /\ StartIdle /\ RlIdle /\ RpcCfgIdle /\ LockIdle /\ RpcWaitIdle /\ ConcIdle /\ DzIdle /\ ShutIdle /\ TmIdle

NextFs ==
    \/ DoGet /\ UNCHANGED <<keyVars, rpcVars, svcVars, mgrVars, httpVars, procVars, startVars, rlVars, rpcCfgVars, lockVars, rpcWaitVars, concVars, dzVars, shutVars, tmVars>>
    \/ DoSetDefault /\ UNCHANGED <<keyVars, rpcVars, svcVars, mgrVars, httpVars, procVars, startVars, rlVars, rpcCfgVars, lockVars, rpcWaitVars, concVars, dzVars, shutVars, tmVars>>
    \/ DoDelete /\ UNCHANGED <<keyVars, rpcVars, svcVars, mgrVars, httpVars, procVars, startVars, rlVars, rpcCfgVars, lockVars, rpcWaitVars, concVars, dzVars, shutVars, tmVars>>
    \/ DoClear /\ UNCHANGED <<keyVars, rpcVars, svcVars, mgrVars, httpVars, procVars, startVars, rlVars, rpcCfgVars, lockVars, rpcWaitVars, concVars, dzVars, shutVars, tmVars>>
    \/ Sweep /\ UNCHANGED <<keyVars, rpcVars, svcVars, mgrVars, httpVars, procVars, startVars, rlVars, rpcCfgVars, lockVars, rpcWaitVars, concVars, dzVars, shutVars, tmVars>>
    \/ Tick /\ UNCHANGED <<keyVars, rpcVars, svcVars, mgrVars, httpVars, procVars, startVars, rlVars, rpcCfgVars, lockVars, rpcWaitVars, concVars, dzVars, shutVars, tmVars>>

SpecFs == InitFs /\ [][NextFs]_vars

\* The file service with its cache, its registry and one node behind it.
InitService == SvcInit /\ KeyIdle /\ MgrIdle /\ HttpIdle /\ ProcIdle /\ StartIdle /\ RlIdle /\ RpcCfgIdle /\ LockIdle /\ RpcWaitIdle /\ ConcIdle /\ DzIdle /\ ShutIdle /\ TmIdle

NextService ==
    \/ ServeGetFile /\ UNCHANGED <<keyVars, mgrVars, httpVars, procVars, startVars, rlVars, rpcCfgVars, lockVars, rpcWaitVars, concVars, dzVars, shutVars, tmVars>>
    \/ PopulateCache /\ UNCHANGED <<keyVars, rpcVars, mgrVars, httpVars, procVars, startVars, rlVars, rpcCfgVars, lockVars, rpcWaitVars, concVars, dzVars, shutVars, tmVars>>

SpecService == InitService /\ [][NextService]_vars

\* The service with a cache configured and the client's default retries, every
\* started goroutine being scheduled eventually.
InitServiceLive ==
    /\ SvcInit /\ KeyIdle /\ MgrIdle /\ HttpIdle /\ ProcIdle /\ StartIdle /\ RlIdle /\ RpcCfgIdle /\ LockIdle /\ RpcWaitIdle /\ ConcIdle /\ DzIdle /\ ShutIdle /\ TmIdle
    /\ cacheCfg.type # "none"
    /\ rpcMaxRetries = DefaultMaxRetries

SpecServiceLive ==
    InitServiceLive /\ [][NextService]_vars
    /\ WF_vars(PopulateCache /\ UNCHANGED <<keyVars, rpcVars, mgrVars, httpVars, procVars, startVars, rlVars, rpcCfgVars, lockVars, rpcWaitVars, concVars, dzVars, shutVars, tmVars>>)

\* The registry built from a configuration, lookups on it and readiness probes.
InitRegistry == MgrInit /\ KeyIdle /\ RpcInit /\ CacheIdle /\ SvcIdle /\ HttpIdle /\ ProcIdle /\ StartIdle /\ RlIdle /\ RpcCfgIdle /\ LockIdle /\ RpcWaitIdle /\ ConcIdle /\ DzIdle /\ ShutIdle /\ TmIdle

NextRegistry ==
    \/ Construct /\ UNCHANGED <<keyVars, rpcVars, cacheVars, svcVars, httpVars, procVars, startVars, rlVars, rpcCfgVars, lockVars, rpcWaitVars, concVars, dzVars, shutVars, tmVars>>
    \/ LookupChain /\ UNCHANGED <<keyVars, rpcVars, cacheVars, svcVars, httpVars, procVars, startVars, rlVars, rpcCfgVars, lockVars, rpcWaitVars, concVars, dzVars, shutVars, tmVars>>
    \/ LookupDefault /\ UNCHANGED <<keyVars, rpcVars, cacheVars, svcVars, httpVars, procVars, startVars, rlVars, rpcCfgVars, lockVars, rpcWaitVars, concVars, dzVars, shutVars, tmVars>>
    \/ ReadyStart /\ UNCHANGED <<keyVars, rpcVars, cacheVars, svcVars, httpVars, procVars, startVars, rlVars, rpcCfgVars, lockVars, rpcWaitVars, concVars, dzVars, shutVars, tmVars>>
    \/ Deadline /\ UNCHANGED <<keyVars, rpcVars, cacheVars, svcVars, httpVars, procVars, startVars, rlVars, rpcCfgVars, lockVars, rpcWaitVars, concVars, dzVars, shutVars, tmVars>>
    \/ Probe /\ UNCHANGED <<keyVars, rpcVars, cacheVars, svcVars, httpVars, procVars, startVars, rlVars, rpcCfgVars, lockVars, rpcWaitVars, concVars, dzVars, shutVars, tmVars>>
    \/ Lock /\ UNCHANGED <<keyVars, rpcVars, cacheVars, svcVars, httpVars, procVars, startVars, rlVars, rpcCfgVars, lockVars, rpcWaitVars, concVars, dzVars, shutVars, tmVars>>
    \/ Write /\ UNCHANGED <<keyVars, rpcVars, cacheVars, svcVars, httpVars, procVars, startVars, rlVars, rpcCfgVars, lockVars, rpcWaitVars, concVars, dzVars, shutVars, tmVars>>
    \/ ReadyFinish /\ UNCHANGED <<keyVars, rpcVars, cacheVars, svcVars, httpVars, procVars, startVars, rlVars, rpcCfgVars, lockVars, rpcWaitVars, concVars, dzVars, shutVars, tmVars>>

SpecRegistry == InitRegistry /\ [][NextRegistry]_vars

\* The same with the Go scheduler running every runnable goroutine and time passing:
\* each probe goroutine's steps, the deadline and the return of wg.Wait are weakly fair.
SpecRegistryLive ==
    /\ InitRegistry /\ [][NextRegistry]_vars
    /\ WF_vars(Deadline /\ UNCHANGED <<keyVars, rpcVars, cacheVars, svcVars, httpVars, procVars, startVars, rlVars, rpcCfgVars, lockVars, rpcWaitVars, concVars, dzVars, shutVars, tmVars>>)
    /\ WF_vars(Probe /\ UNCHANGED <<keyVars, rpcVars, cacheVars, svcVars, httpVars, procVars, startVars, rlVars, rpcCfgVars, lockVars, rpcWaitVars, concVars, dzVars, shutVars, tmVars>>)
    /\ WF_vars(Lock /\ UNCHANGED <<keyVars, rpcVars, cacheVars, svcVars, httpVars, procVars, startVars, rlVars, rpcCfgVars, lockVars, rpcWaitVars, concVars, dzVars, shutVars, tmVars>>)
    /\ WF_vars(Write /\ UNCHANGED <<keyVars, rpcVars, cacheVars, svcVars, httpVars, procVars, startVars, rlVars, rpcCfgVars, lockVars, rpcWaitVars, concVars, dzVars, shutVars, tmVars>>)
    /\ WF_vars(ReadyFinish /\ UNCHANGED <<keyVars, rpcVars, cacheVars, svcVars, httpVars, procVars, startVars, rlVars, rpcCfgVars, lockVars, rpcWaitVars, concVars, dzVars, shutVars, tmVars>>)

\* Requests through the middleware stack of the server.
InitHTTP == HttpInit /\ KeyIdle /\ RpcInit /\ CacheIdle /\ SvcIdle /\ MgrIdle /\ ProcIdle /\ StartIdle /\ RlIdle /\ RpcCfgIdle /\ LockIdle /\ RpcWaitIdle /\ ConcIdle /\ DzIdle /\ ShutIdle /\ TmIdle

NextHTTP ==
    \/ Receive /\ UNCHANGED <<keyVars, rpcVars, cacheVars, svcVars, mgrVars, procVars, startVars, rlVars, rpcCfgVars, lockVars, rpcWaitVars, concVars, dzVars, shutVars, tmVars>>
    \/ Enter /\ UNCHANGED <<keyVars, rpcVars, cacheVars, svcVars, mgrVars, procVars, startVars, rlVars, rpcCfgVars, lockVars, rpcWaitVars, concVars, dzVars, shutVars, tmVars>>
    \/ Handle /\ UNCHANGED <<keyVars, rpcVars, cacheVars, svcVars, mgrVars, procVars, startVars, rlVars, rpcCfgVars, lockVars, rpcWaitVars, concVars, dzVars, shutVars, tmVars>>
    \/ Unwind /\ UNCHANGED <<keyVars, rpcVars, cacheVars, svcVars, mgrVars, procVars, startVars, rlVars, rpcCfgVars, lockVars, rpcWaitVars, concVars, dzVars, shutVars, tmVars>>

SpecHTTP == InitHTTP /\ [][NextHTTP]_vars

\* The running process until it exits.
InitProcess == ProcInit /\ KeyIdle /\ RpcInit /\ CacheIdle /\ SvcIdle /\ MgrIdle /\ HttpIdle /\ StartIdle /\ RlIdle /\ RpcCfgIdle /\ LockIdle /\ RpcWaitIdle /\ ConcIdle /\ DzIdle /\ ShutIdle /\ TmIdle

NextProcess ==
    \/ Signal /\ UNCHANGED <<keyVars, rpcVars, cacheVars, svcVars, mgrVars, httpVars, startVars, rlVars, rpcCfgVars, lockVars, rpcWaitVars, concVars, dzVars, shutVars, tmVars>>
    \/ ServerFails /\ UNCHANGED <<keyVars, rpcVars, cacheVars, svcVars, mgrVars, httpVars, startVars, rlVars, rpcCfgVars, lockVars, rpcWaitVars, concVars, dzVars, shutVars, tmVars>>
    \/ Select /\ UNCHANGED <<keyVars, rpcVars, cacheVars, svcVars, mgrVars, httpVars, startVars, rlVars, rpcCfgVars, lockVars, rpcWaitVars, concVars, dzVars, shutVars, tmVars>>
    \/ Shutdown /\ UNCHANGED <<keyVars, rpcVars, cacheVars, svcVars, mgrVars, httpVars, startVars, rlVars, rpcCfgVars, lockVars, rpcWaitVars, concVars, dzVars, shutVars, tmVars>>
    \/ RequestDone /\ UNCHANGED <<keyVars, rpcVars, cacheVars, svcVars, mgrVars, httpVars, startVars, rlVars, rpcCfgVars, lockVars, rpcWaitVars, concVars, dzVars, shutVars, tmVars>>
    \/ ShutdownTimeout /\ UNCHANGED <<keyVars, rpcVars, cacheVars, svcVars, mgrVars, httpVars, startVars, rlVars, rpcCfgVars, lockVars, rpcWaitVars, concVars, dzVars, shutVars, tmVars>>
    \/ ShutdownReturn /\ UNCHANGED <<keyVars, rpcVars, cacheVars, svcVars, mgrVars, httpVars, startVars, rlVars, rpcCfgVars, lockVars, rpcWaitVars, concVars, dzVars, tmVars>>
    \/ AwaitShutdownCtx /\ UNCHANGED <<keyVars, rpcVars, cacheVars, svcVars, mgrVars, httpVars, startVars, rlVars, rpcCfgVars, lockVars, rpcWaitVars, concVars, dzVars, tmVars>>
    \/ CloseClient /\ UNCHANGED <<keyVars, rpcVars, cacheVars, svcVars, mgrVars, httpVars, startVars, rlVars, rpcCfgVars, lockVars, rpcWaitVars, concVars, dzVars, shutVars, tmVars>>
    \/ CacheClose /\ UNCHANGED <<keyVars, rpcVars, cacheVars, svcVars, mgrVars, httpVars, startVars, rlVars, rpcCfgVars, lockVars, rpcWaitVars, concVars, dzVars, shutVars, tmVars>>
    \/ CleanupTick /\ UNCHANGED <<keyVars, rpcVars, cacheVars, svcVars, mgrVars, httpVars, startVars, rlVars, rpcCfgVars, lockVars, rpcWaitVars, concVars, dzVars, shutVars, tmVars>>
    \/ CleanupDone /\ UNCHANGED <<keyVars, rpcVars, cacheVars, svcVars, mgrVars, httpVars, startVars, rlVars, rpcCfgVars, lockVars, rpcWaitVars, concVars, dzVars, shutVars, tmVars>>
    \/ CleanupExit /\ UNCHANGED <<keyVars, rpcVars, cacheVars, svcVars, mgrVars, httpVars, startVars, rlVars, rpcCfgVars, lockVars, rpcWaitVars, concVars, dzVars, shutVars, tmVars>>
    \/ CacheClosed /\ UNCHANGED <<keyVars, rpcVars, cacheVars, svcVars, mgrVars, httpVars, startVars, rlVars, rpcCfgVars, lockVars, rpcWaitVars, concVars, dzVars, shutVars, tmVars>>
    \/ Exit /\ UNCHANGED <<keyVars, rpcVars, cacheVars, svcVars, mgrVars, httpVars, rlVars, rpcCfgVars, lockVars, rpcWaitVars, concVars, dzVars, shutVars, tmVars>>

SpecProcess == InitProcess /\ [][NextProcess]_vars

\* The same with main and the cleanup goroutine scheduled and time passing: every
\* step of main, the shutdown deadline and the goroutine's return are weakly fair.
\* Signals, server failures, the answers of requests in flight and the cleanup
\* ticker are not.
SpecProcessLive ==
    /\ InitProcess /\ [][NextProcess]_vars
    /\ WF_vars(Select /\ UNCHANGED <<keyVars, rpcVars, cacheVars, svcVars, mgrVars, httpVars, startVars, rlVars, rpcCfgVars, lockVars, rpcWaitVars, concVars, dzVars, shutVars, tmVars>>)
    /\ WF_vars(Shutdown /\ UNCHANGED <<keyVars, rpcVars, cacheVars, svcVars, mgrVars, httpVars, startVars, rlVars, rpcCfgVars, lockVars, rpcWaitVars, concVars, dzVars, shutVars, tmVars>>)
    /\ WF_vars(ShutdownTimeout /\ UNCHANGED <<keyVars, rpcVars, cacheVars, svcVars, mgrVars, httpVars, startVars, rlVars, rpcCfgVars, lockVars, rpcWaitVars, concVars, dzVars, shutVars, tmVars>>)
    /\ WF_vars(ShutdownReturn /\ UNCHANGED <<keyVars, rpcVars, cacheVars, svcVars, mgrVars, httpVars, startVars, rlVars, rpcCfgVars, lockVars, rpcWaitVars, concVars, dzVars, tmVars>>)
    /\ WF_vars(AwaitShutdownCtx /\ UNCHANGED <<keyVars, rpcVars, cacheVars, svcVars, mgrVars, httpVars, startVars, rlVars, rpcCfgVars, lockVars, rpcWaitVars, concVars, dzVars, tmVars>>)
    /\ WF_vars(CloseClient /\ UNCHANGED <<keyVars, rpcVars, cacheVars, svcVars, mgrVars, httpVars, startVars, rlVars, rpcCfgVars, lockVars, rpcWaitVars, concVars, dzVars, shutVars, tmVars>>)
    /\ WF_vars(CacheClose /\ UNCHANGED <<keyVars, rpcVars, cacheVars, svcVars, mgrVars, httpVars, startVars, rlVars, rpcCfgVars, lockVars, rpcWaitVars, concVars, dzVars, shutVars, tmVars>>)
    /\ WF_vars(CleanupDone /\ UNCHANGED <<keyVars, rpcVars, cacheVars, svcVars, mgrVars, httpVars, startVars, rlVars, rpcCfgVars, lockVars, rpcWaitVars, concVars, dzVars, shutVars, tmVars>>)
    /\ WF_vars(CleanupExit /\ UNCHANGED <<keyVars, rpcVars, cacheVars, svcVars, mgrVars, httpVars, startVars, rlVars, rpcCfgVars, lockVars, rpcWaitVars, concVars, dzVars, shutVars, tmVars>>)
    /\ WF_vars(CacheClosed /\ UNCHANGED <<keyVars, rpcVars, cacheVars, svcVars, mgrVars, httpVars, startVars, rlVars, rpcCfgVars, lockVars, rpcWaitVars, concVars, dzVars, shutVars, tmVars>>)
    /\ WF_vars(Exit /\ UNCHANGED <<keyVars, rpcVars, cacheVars, svcVars, mgrVars, httpVars, rlVars, rpcCfgVars, lockVars, rpcWaitVars, concVars, dzVars, shutVars, tmVars>>)

\* The process from its start to its exit.
InitStartup == StartInit /\ KeyIdle /\ RpcInit /\ CacheIdle /\ SvcIdle /\ MgrIdle /\ HttpIdle /\ RlIdle /\ RpcCfgIdle /\ LockIdle /\ RpcWaitIdle /\ ConcIdle /\ DzIdle /\ ShutIdle /\ TmIdle

NextStartup ==
    \/ LoadConfig /\ UNCHANGED <<keyVars, rpcVars, cacheVars, svcVars, mgrVars, httpVars, rlVars, rpcCfgVars, lockVars, rpcWaitVars, concVars, dzVars, shutVars, tmVars>>
    \/ InitLogger /\ UNCHANGED <<keyVars, rpcVars, cacheVars, svcVars, mgrVars, httpVars, rlVars, rpcCfgVars, lockVars, rpcWaitVars, concVars, dzVars, shutVars, tmVars>>
    \/ InitializeCache /\ UNCHANGED <<keyVars, rpcVars, cacheVars, svcVars, mgrVars, httpVars, rlVars, rpcCfgVars, lockVars, rpcWaitVars, concVars, dzVars, shutVars, tmVars>>
    \/ InitializeManager /\ UNCHANGED <<keyVars, rpcVars, cacheVars, svcVars, mgrVars, httpVars, rlVars, rpcCfgVars, lockVars, rpcWaitVars, concVars, dzVars, shutVars, tmVars>>
    \/ StartServer /\ UNCHANGED <<keyVars, rpcVars, cacheVars, svcVars, mgrVars, httpVars, rlVars, rpcCfgVars, lockVars, rpcWaitVars, concVars, dzVars, shutVars, tmVars>>
    \/ RequestArrives /\ UNCHANGED <<keyVars, rpcVars, cacheVars, svcVars, mgrVars, httpVars, rlVars, rpcCfgVars, lockVars, rpcWaitVars, concVars, dzVars, shutVars, tmVars>>
    \/ NextProcess

SpecStartup == InitStartup /\ [][NextStartup]_vars

\* The rate limiter under requests from two client IPs.
InitRateLimit == RlInit /\ KeyIdle /\ RpcInit /\ CacheIdle /\ SvcIdle /\ MgrIdle /\ HttpIdle /\ ProcIdle /\ StartIdle /\ RpcCfgIdle /\ LockIdle /\ RpcWaitIdle /\ ConcIdle /\ DzIdle /\ ShutIdle /\ TmIdle

NextRateLimit ==
    \/ RateLimit /\ UNCHANGED <<keyVars, rpcVars, cacheVars, svcVars, mgrVars, httpVars, procVars, startVars, rpcCfgVars, lockVars, rpcWaitVars, concVars, dzVars, shutVars, tmVars>>
    \/ CleanupVisitors /\ UNCHANGED <<keyVars, rpcVars, cacheVars, svcVars, mgrVars, httpVars, procVars, startVars, rpcCfgVars, lockVars, rpcWaitVars, concVars, dzVars, shutVars, tmVars>>
    \/ RlTick /\ UNCHANGED <<keyVars, rpcVars, cacheVars, svcVars, mgrVars, httpVars, procVars, startVars, rpcCfgVars, lockVars, rpcWaitVars, concVars, dzVars, shutVars, tmVars>>

SpecRateLimit == InitRateLimit /\ [][NextRateLimit]_vars

\* The local-fs cache under concurrent Gets, a Set and the sweeper.
InitLock == LockInit /\ KeyIdle /\ RpcInit /\ CacheIdle /\ SvcIdle /\ MgrIdle /\ HttpIdle /\ ProcIdle /\ StartIdle /\ RlIdle /\ RpcCfgIdle /\ RpcWaitIdle /\ ConcIdle /\ DzIdle /\ ShutIdle /\ TmIdle

NextLock ==
    \/ (\E g \in Getters : GetRLock(g)) /\ UNCHANGED <<keyVars, rpcVars, cacheVars, svcVars, mgrVars, httpVars, procVars, startVars, rlVars, rpcCfgVars, rpcWaitVars, concVars, dzVars, shutVars, tmVars>>
    \/ (\E g \in Getters : GetStat(g)) /\ UNCHANGED <<keyVars, rpcVars, cacheVars, svcVars, mgrVars, httpVars, procVars, startVars, rlVars, rpcCfgVars, rpcWaitVars, concVars, dzVars, shutVars, tmVars>>
    \/ (\E g \in Getters : GetRemove(g)) /\ UNCHANGED <<keyVars, rpcVars, cacheVars, svcVars, mgrVars, httpVars, procVars, startVars, rlVars, rpcCfgVars, rpcWaitVars, concVars, dzVars, shutVars, tmVars>>
    \/ (\E g \in Getters : GetReadContent(g)) /\ UNCHANGED <<keyVars, rpcVars, cacheVars, svcVars, mgrVars, httpVars, procVars, startVars, rlVars, rpcCfgVars, rpcWaitVars, concVars, dzVars, shutVars, tmVars>>
    \/ (\E g \in Getters : GetReadMeta(g)) /\ UNCHANGED <<keyVars, rpcVars, cacheVars, svcVars, mgrVars, httpVars, procVars, startVars, rlVars, rpcCfgVars, rpcWaitVars, concVars, dzVars, shutVars, tmVars>>
    \/ (\E w \in Writers : WriterLock(w)) /\ UNCHANGED <<keyVars, rpcVars, cacheVars, svcVars, mgrVars, httpVars, procVars, startVars, rlVars, rpcCfgVars, rpcWaitVars, concVars, dzVars, shutVars, tmVars>>
    \/ SetWriteContent /\ UNCHANGED <<keyVars, rpcVars, cacheVars, svcVars, mgrVars, httpVars, procVars, startVars, rlVars, rpcCfgVars, rpcWaitVars, concVars, dzVars, shutVars, tmVars>>
    \/ SetWriteMeta /\ UNCHANGED <<keyVars, rpcVars, cacheVars, svcVars, mgrVars, httpVars, procVars, startVars, rlVars, rpcCfgVars, rpcWaitVars, concVars, dzVars, shutVars, tmVars>>
    \/ CleanupRemove /\ UNCHANGED <<keyVars, rpcVars, cacheVars, svcVars, mgrVars, httpVars, procVars, startVars, rlVars, rpcCfgVars, rpcWaitVars, concVars, dzVars, shutVars, tmVars>>
    \/ LkTick /\ UNCHANGED <<keyVars, rpcVars, cacheVars, svcVars, mgrVars, httpVars, procVars, startVars, rlVars, rpcCfgVars, rpcWaitVars, concVars, dzVars, shutVars, tmVars>>

SpecLock == InitLock /\ [][NextLock]_vars

\* The local-fs cache with its cleanup goroutine, up to and after Close.  cleanup
\* holds the exclusive lock from start to end: its effect is taken at its start.
\* Callers store files until Close is called.
InitSweeper == SweeperInit /\ FsInit /\ cacheCfg.walk = <<CacheKeyA, CacheKeyB>> /\ KeyIdle /\ RpcInit /\ SvcIdle /\ MgrIdle /\ HttpIdle /\ StartIdle /\ RlIdle /\ RpcCfgIdle /\ LockIdle /\ RpcWaitIdle /\ ConcIdle /\ DzIdle /\ shutDrained = FALSE /\ shutReport = MsgTimeout /\ TmIdle

NextSweeper ==
    \/ cacheState = "open" /\ DoSetDefault /\ UNCHANGED <<keyVars, rpcVars, svcVars, mgrVars, httpVars, procVars, startVars, rlVars, rpcCfgVars, lockVars, rpcWaitVars, concVars, dzVars, shutVars, tmVars>>
    \/ Tick /\ UNCHANGED <<keyVars, rpcVars, svcVars, mgrVars, httpVars, procVars, startVars, rlVars, rpcCfgVars, lockVars, rpcWaitVars, concVars, dzVars, shutVars, tmVars>>
    \/ CleanupTick /\ Sweep /\ UNCHANGED <<keyVars, rpcVars, svcVars, mgrVars, httpVars, startVars, rlVars, rpcCfgVars, lockVars, rpcWaitVars, concVars, dzVars, shutVars, tmVars>>
    \/ CleanupDone /\ UNCHANGED <<keyVars, rpcVars, cacheVars, svcVars, mgrVars, httpVars, startVars, rlVars, rpcCfgVars, lockVars, rpcWaitVars, concVars, dzVars, shutVars, tmVars>>
    \/ CacheClose /\ UNCHANGED <<keyVars, rpcVars, cacheVars, svcVars, mgrVars, httpVars, startVars, rlVars, rpcCfgVars, lockVars, rpcWaitVars, concVars, dzVars, shutVars, tmVars>>
    \/ CleanupExit /\ UNCHANGED <<keyVars, rpcVars, cacheVars, svcVars, mgrVars, httpVars, startVars, rlVars, rpcCfgVars, lockVars, rpcWaitVars, concVars, dzVars, shutVars, tmVars>>
    \/ CacheClosed /\ UNCHANGED <<keyVars, rpcVars, cacheVars, svcVars, mgrVars, httpVars, startVars, rlVars, rpcCfgVars, lockVars, rpcWaitVars, concVars, dzVars, shutVars, tmVars>>

SpecSweeper == InitSweeper /\ [][NextSweeper]_vars

\* cleanup returns, the goroutine sees the closed stopCleanup, and wg.Wait returns.
SpecSweeperLive ==
    /\ SpecSweeper
    /\ WF_vars(CleanupDone /\ UNCHANGED <<keyVars, rpcVars, cacheVars, svcVars, mgrVars, httpVars, startVars, rlVars, rpcCfgVars, lockVars, rpcWaitVars, concVars, dzVars, shutVars, tmVars>>)
    /\ WF_vars(CleanupExit /\ UNCHANGED <<keyVars, rpcVars, cacheVars, svcVars, mgrVars, httpVars, startVars, rlVars, rpcCfgVars, lockVars, rpcWaitVars, concVars, dzVars, shutVars, tmVars>>)
    /\ WF_vars(CacheClosed /\ UNCHANGED <<keyVars, rpcVars, cacheVars, svcVars, mgrVars, httpVars, startVars, rlVars, rpcCfgVars, lockVars, rpcWaitVars, concVars, dzVars, shutVars, tmVars>>)

\* One client under two concurrent callers and a Stats call.
InitConc == ConcInit /\ KeyIdle /\ RpcInit /\ CacheIdle /\ SvcIdle /\ MgrIdle /\ HttpIdle /\ ProcIdle /\ StartIdle /\ RlIdle /\ RpcCfgIdle /\ LockIdle /\ RpcWaitIdle /\ DzIdle /\ ShutIdle /\ TmIdle

\* The fields of the client that no attempt and no Stats call writes.
ClientRest == UNCHANGED <<rpcPc, rpcMaxRetries, rpcAttempt, rpcErr, rpcLastErr, rpcCtxDone, rpcRet, rpcResponses, rpcCalls>>

NextConc ==
    \/ (\E g \in Callers : AttemptStart(g)) /\ ClientRest /\ UNCHANGED <<keyVars, cacheVars, svcVars, mgrVars, httpVars, procVars, startVars, rlVars, rpcCfgVars, lockVars, rpcWaitVars, dzVars, shutVars, tmVars>>
    \/ (\E g \in Callers : AttemptEnd(g)) /\ ClientRest /\ UNCHANGED <<keyVars, cacheVars, svcVars, mgrVars, httpVars, procVars, startVars, rlVars, rpcCfgVars, lockVars, rpcWaitVars, dzVars, shutVars, tmVars>>
    \/ StatsLoadRequests /\ ClientRest /\ UNCHANGED <<keyVars, cacheVars, svcVars, mgrVars, httpVars, procVars, startVars, rlVars, rpcCfgVars, lockVars, rpcWaitVars, dzVars, shutVars, tmVars>>
    \/ StatsLoadErrors /\ ClientRest /\ UNCHANGED <<keyVars, cacheVars, svcVars, mgrVars, httpVars, procVars, startVars, rlVars, rpcCfgVars, lockVars, rpcWaitVars, dzVars, shutVars, tmVars>>

SpecConc == InitConc /\ [][NextConc]_vars

\* The service over a Redis with foreign values under the gateway's keys.
InitCacheErr == CacheErrInit /\ KeyIdle /\ MgrIdle /\ HttpIdle /\ ProcIdle /\ StartIdle /\ RlIdle /\ RpcCfgIdle /\ LockIdle /\ RpcWaitIdle /\ ConcIdle /\ DzIdle /\ ShutIdle /\ TmIdle

SpecCacheErr == InitCacheErr /\ [][NextService]_vars

\* The service with a cache, asked for one file under several names and keys.
InitSameFile ==
    /\ SvcInit /\ KeyIdle /\ MgrIdle /\ HttpIdle /\ ProcIdle /\ StartIdle /\ RlIdle /\ RpcCfgIdle /\ LockIdle /\ RpcWaitIdle /\ ConcIdle /\ DzIdle /\ ShutIdle /\ TmIdle
    /\ cacheCfg.type # "none"
    /\ rpcMaxRetries = DefaultMaxRetries

NextSameFile ==
    \/ ServeSameFile /\ UNCHANGED <<keyVars, mgrVars, httpVars, procVars, startVars, rlVars, rpcCfgVars, lockVars, rpcWaitVars, concVars, dzVars, shutVars, tmVars>>
    \/ PopulateCache /\ UNCHANGED <<keyVars, rpcVars, mgrVars, httpVars, procVars, startVars, rlVars, rpcCfgVars, lockVars, rpcWaitVars, concVars, dzVars, shutVars, tmVars>>

SpecSameFile == InitSameFile /\ [][NextSameFile]_vars

\* One server from its configuration to the first request's handler.
InitTimeout == TmInit /\ KeyIdle /\ RpcInit /\ CacheIdle /\ SvcIdle /\ MgrIdle /\ HttpIdle /\ ProcIdle /\ StartIdle /\ RlIdle /\ RpcCfgIdle /\ LockIdle /\ RpcWaitIdle /\ ConcIdle /\ DzIdle /\ ShutIdle

NextTimeout ==
    \/ LoadReadTimeout /\ UNCHANGED <<keyVars, rpcVars, cacheVars, svcVars, mgrVars, httpVars, procVars, startVars, rlVars, rpcCfgVars, lockVars, rpcWaitVars, concVars, dzVars, shutVars>>
    \/ SetupTimeout /\ UNCHANGED <<keyVars, rpcVars, cacheVars, svcVars, mgrVars, httpVars, procVars, startVars, rlVars, rpcCfgVars, lockVars, rpcWaitVars, concVars, dzVars, shutVars>>
    \/ TimeoutWrap /\ UNCHANGED <<keyVars, rpcVars, cacheVars, svcVars, mgrVars, httpVars, procVars, startVars, rlVars, rpcCfgVars, lockVars, rpcWaitVars, concVars, dzVars, shutVars>>
    \/ TimeoutNext /\ UNCHANGED <<keyVars, rpcVars, cacheVars, svcVars, mgrVars, httpVars, procVars, startVars, rlVars, rpcCfgVars, lockVars, rpcWaitVars, concVars, dzVars, shutVars>>

SpecTimeout == InitTimeout /\ [][NextTimeout]_vars

\* One decompressGzip of a stream under a size limit.
InitDecompress == DzInit /\ KeyIdle /\ RpcInit /\ CacheIdle /\ SvcIdle /\ MgrIdle /\ HttpIdle /\ ProcIdle /\ StartIdle /\ RlIdle /\ RpcCfgIdle /\ LockIdle /\ RpcWaitIdle /\ ConcIdle /\ ShutIdle /\ TmIdle

NextDecompress ==
    \/ CopyChunk /\ UNCHANGED <<keyVars, rpcVars, cacheVars, svcVars, mgrVars, httpVars, procVars, startVars, rlVars, rpcCfgVars, lockVars, rpcWaitVars, concVars, shutVars, tmVars>>
    \/ CopyEnd /\ UNCHANGED <<keyVars, rpcVars, cacheVars, svcVars, mgrVars, httpVars, procVars, startVars, rlVars, rpcCfgVars, lockVars, rpcWaitVars, concVars, shutVars, tmVars>>

SpecDecompress == InitDecompress /\ [][NextDecompress]_vars

----------------------------------------------------------------------------
(* Claims about FileRequest.CacheKey *)
\* C4: CacheKey is "{chain}:{txid}" for an empty viewing key and
\* "{chain}:{txid}:encrypted" for every non-empty one; over validated requests
\* equal keys mean equal (chain, txid, viewing-key-present); requests that
\* differ only in a non-empty viewing key share one key.
KeyShape(k, r) ==
    LET n == Len(r.ChainID)
        m == Len(r.TXID)
    IN  /\ Len(k) = n + 1 + m + (IF r.EVK = EmptyStr THEN 0 ELSE Len(EncryptedSuffix))
        /\ SubSeq(k, 1, n) = r.ChainID
        /\ k[n + 1] = ":"
        /\ SubSeq(k, n + 2, n + 1 + m) = r.TXID
        /\ r.EVK # EmptyStr => SubSeq(k, n + m + 2, Len(k)) = EncryptedSuffix

SameKeyed(r, s) ==
    r.ChainID = s.ChainID /\ r.TXID = s.TXID /\ (r.EVK = EmptyStr) = (s.EVK = EmptyStr)

----------------------------------------------------------------------------
(* Claims about Client.Call *)

\* The attempt failed with a non-200 status or a transport error.
IsServerFailure(resp) == resp.transport \/ resp.status # StatusOK

IsSuccess(resp) == callErr(resp) = NilErr

\* The response carries a JSON-RPC error object with a code in the reserved band.
CarriesReservedError(resp) ==
    /\ ~resp.transport
    /\ resp.body = "error"
    /\ resp.code >= RPCReservedLo /\ resp.code <= RPCReservedHi

C5_WitnessSuccess ==
    /\ rpcPc = "done"
    /\ rpcRet = RetResult
    /\ Len(rpcResponses) > 1

\* C6: a node response that carries a JSON-RPC error object with a code in
\* [-32099, -32000] ends the Call: no attempt follows it, and (the context not
\* being cancelled) the Call returns that error.
C6_NoRetryOnReserved ==
    \A i \in 1..Len(rpcResponses) :
        CarriesReservedError(rpcResponses[i]) =>
            /\ i = Len(rpcResponses)
            /\ (rpcPc = "done" /\ ~rpcCtxDone) =>
                   rpcRet = RetErr(RPCErr(rpcResponses[i].code))



----------------------------------------------------------------------------
(* Claims about the caches *)

\* The latest operation was a Get, with a live context, of a key that a Set
\* stored and nothing has removed since.
GetOfStored ==
    /\ cacheLast.op = "Get"
    /\ cacheLast.err \in {"nil", "miss"}
    /\ cacheLast.prev # NilPtr

\* Time elapsed at the latest Get since the Set that stored its key.
AgeAtGet == now - cacheLast.prev[1].at

\* The TTL Redis applies to the entry: the Set's ttl, the configured one for 0.
EffectiveTtl(ttl) == IF ttl = 0 THEN cacheCfg.ttl ELSE ttl

RECURSIVE SumSizes(_, _)
SumSizes(bin, keys) ==
    IF keys = {} THEN 0
    ELSE LET k == CHOOSE x \in keys : TRUE
         IN  Len(bin[k].content) + SumSizes(bin, keys \ {k})

\* Total bytes of the entries the filesystem cache stores.
StoredBytes == SumSizes(cache.bin, DOMAIN cache.bin)

\* C1: with either cache, a Get of a key whose Set succeeded, made before the entry
\* expires (under the configured TTL and under the Set's) and before it is deleted,
\* cleared or evicted, is a hit whose File equals the stored one in TXID, ChainID,
\* Content and Metadata.
C1_RoundTrip ==
    (/\ GetOfStored
     /\ AgeAtGet < cacheCfg.ttl
     /\ AgeAtGet < EffectiveTtl(cacheLast.prev[1].ttl))
    => /\ cacheLast.err = "nil"
       /\ cacheLast.file # NilPtr
       /\ cacheLast.file[1].TXID = cacheLast.prev[1].file.TXID
       /\ cacheLast.file[1].ChainID = cacheLast.prev[1].file.ChainID
       /\ cacheLast.file[1].Content = cacheLast.prev[1].file.Content
       /\ cacheLast.file[1].Metadata = cacheLast.prev[1].file.Metadata

\* C2: in the filesystem cache, an entry stored with Set(k, f, ttl), ttl > 0, is a hit
\* at a Get made less than ttl after the Set; at a Get made more than ttl after the
\* Set the result is a miss and the entry's files are gone.
C2_TTLExpiry ==
    (/\ cacheCfg.type = "filesystem"
     /\ GetOfStored
     /\ cacheLast.prev[1].ttl > 0)
    => /\ AgeAtGet < cacheLast.prev[1].ttl => cacheLast.err = "nil"
       /\ AgeAtGet > cacheLast.prev[1].ttl =>
              /\ cacheLast.err = "miss"
              /\ cacheLast.key \notin DOMAIN cache.bin
              /\ cacheLast.key \notin DOMAIN cache.meta

\* C3: after every completed Set on the filesystem cache, the bytes of the stored
\* entries and the size counter are both at most maxSize.
C3_SizeCap ==
    (/\ cacheCfg.type = "filesystem"
     /\ cacheLast.op = "Set"
     /\ cacheLast.err = "nil")
    => /\ StoredBytes <= cacheCfg.maxSize
       /\ cache.size <= cacheCfg.maxSize

----------------------------------------------------------------------------
(* Claims about FileService.GetFile *)

\* This step is a GetFile call.
IsGetFile == svcRequests' = svcRequests + 1

\* C7: when every attempt of the node RPC failed and the retries are used up (the
\* context still live), GetFile returns the domain error RPC_ERROR with status 502.
C7_RPCFailureIsRPCError ==
    (/\ svcLast.served
     /\ ~svcLast.ctxDone
     /\ svcLast.rpcFailed
     /\ CountInTrace("node.rpc", svcLast.trace) = rpcMaxRetries + 1)
    => svcLast.err = NewRPCError

\* C8: a GetFile whose request fails Validate returns INVALID_INPUT and no file, calls
\* nothing downstream (no cache lookup, registry lookup, node RPC, no goroutine
\* storing to the cache), and leaves the cache, the client's counters and the
\* pending cache stores as they were.
C8_ValidateFirst ==
    [][(IsGetFile /\ Validate(svcLast'.req) # NoError) =>
          /\ svcLast'.err = NewInvalidInputError
          /\ svcLast'.file = NilPtr
          /\ svcLast'.trace = << >>
          /\ svcLast'.cacheErr = "none"
          /\ UNCHANGED <<cache, cacheLast, cacheLive, requestCount, errorCount,
                         svcPending>>]_vars

\* An invalid request that asked for the cache, with a cache configured, was refused.
C8_Witness ==
    /\ svcLast.served
    /\ Validate(svcLast.req) # NoError
    /\ svcLast.req.UseCache
    /\ cacheCfg.type # "none"
    /\ svcLast.err = NewInvalidInputError
    /\ svcLast.trace = << >>

C10_CacheHitFastPath ==
    [][(IsGetFile /\ svcLast'.cacheErr = "nil") =>
          /\ svcLast'.err = NoError
          /\ svcLast'.file # NilPtr
          /\ svcLast'.file = cacheLast'.file
          /\ svcLast'.trace = <<"cache.Get">>
          /\ UNCHANGED <<requestCount, errorCount, svcPending>>]_vars

\* A request was served from the cache, which an earlier request had populated.
C10_Witness ==
    /\ svcLast.served
    /\ svcLast.req.UseCache
    /\ svcLast.cacheErr = "nil"
    /\ svcLast.file # NilPtr
    /\ svcLast.file[1].Content = BytesText

----------------------------------------------------------------------------
(* Claims about the cache population after a miss *)

\* This step is a cache-population goroutine running.
IsStore == Len(svcPending') < Len(svcPending)

PendingKeys == {svcPending[i].key : i \in 1..Len(svcPending)}

\* C11: when GetFile has produced a file on a miss (UseCache set, a cache present), a
\* goroutine for the request's key is pending on GetFile's return, with the result
\* already fixed; cache.Set for that key is eventually called; it runs under a context
\* of its own, so it stores unless its own time has run out, also when the request's
\* context is cancelled; and whatever it does, the result GetFile returned stays.
C11_AsyncPopulation ==
    /\ [][/\ (IsGetFile /\ svcLast'.err = NoError /\ svcLast'.cacheErr \notin {"none", "nil"})
               => /\ Len(svcPending') = Len(svcPending) + 1
                  /\ svcPending'[Len(svcPending')].key = CacheKey(svcLast'.req)
                  /\ svcPending'[Len(svcPending')].file = svcLast'.file[1]
          /\ IsStore
               => /\ svcLast' = svcLast
                  /\ svcStored'.key \in PendingKeys
                  /\ svcStored'.err = (IF svcStored'.timedOut
                                           THEN (IF cacheCfg.type = "filesystem"
                                                     THEN "ctx" ELSE "error")
                                           ELSE "nil")
                  /\ svcStored'.err = "nil" => svcStored'.key \in StoredKeys(cacheCfg, cache')
         ]_vars
    /\ \A k \in {CacheKey(r) : r \in SvcRequestSet} :
           (k \in PendingKeys) ~> (svcStored.ran /\ svcStored.key = k)

\* A goroutine stored its file although the request's context had been cancelled.
C11_Witness ==
    /\ svcStored.ran
    /\ svcStored.reqCancelled
    /\ ~svcStored.timedOut
    /\ svcStored.err = "nil"
    /\ svcStored.key \in StoredKeys(cacheCfg, cache)

----------------------------------------------------------------------------
(* Claims about decompression and chain resolution in GetFile *)

\* The bytes the node delivered to the latest GetFile.
RawPayload == DecodeString(svcLast.nodeHex[1]).data

\* The latest GetFile fetched a payload that starts with the gzip magic and does
\* not decompress.
FetchedBadGzip ==
    /\ svcLast.served
    /\ svcLast.nodeHex # NilPtr
    /\ DecodeString(svcLast.nodeHex[1]).ok
    /\ isGzipped(RawPayload)
    /\ ~Decompress(RawPayload, DecompressMaxSize).ok

\* C12: when the fetched payload starts with the gzip magic and its decompression
\* fails (malformed stream, or size limit exceeded), GetFile succeeds, the file's
\* content is the payload as fetched and its metadata is the one detected from
\* those bytes.
C12_DecompressionFallback ==
    FetchedBadGzip
    => /\ svcLast.err = NoError
       /\ svcLast.file # NilPtr
       /\ svcLast.file[1].Content = RawPayload
       /\ svcLast.file[1].Metadata = Ptr(DetectType(RawPayload, svcLast.req.Filename))

\* A well-formed gzip payload over the size limit was delivered as fetched.
C12_Witness ==
    /\ FetchedBadGzip
    /\ decompressGzip(RawPayload, DecompressMaxSize + Len(RawPayload)).ok
    /\ svcLast.file # NilPtr
    /\ svcLast.file[1].Content = RawPayload
    /\ svcLast.file[1].Metadata[1].Compressed

\* The latest GetFile named a chain that the registry does not hold.
NamedUnknownChain ==
    /\ svcLast.served
    /\ svcLast.req.ChainID # EmptyStr
    /\ svcLast.req.ChainID \notin registry.chains

----------------------------------------------------------------------------
(* Claims about the chain registry *)
\* C14: NewManager succeeds only if (here: exactly if) at least one enabled chain is
\* configured and the configured default, when non-empty, is an enabled chain; GetChain
\* never returns a client for a disabled or unconfigured chain; after a successful
\* construction GetDefaultChain returns a client.
C14_Registry ==
    /\ mgrPc \in {"up", "failed"}
       => (mgrPc = "up" <=>
             /\ \E id \in DOMAIN mgrCfg.Chains : mgrCfg.Chains[id]
             /\ mgrCfg.Default # EmptyStr
                => /\ mgrCfg.Default \in DOMAIN mgrCfg.Chains
                   /\ mgrCfg.Chains[mgrCfg.Default])
    /\ mgrPc = "up" <=> manager # NilPtr
    /\ mgrLast.op = "GetChain"
       => (mgrLast.client # NilPtr
             <=> /\ mgrLast.id \in DOMAIN mgrCfg.Chains
                 /\ mgrCfg.Chains[mgrLast.id])
    /\ mgrLast.op = "GetDefaultChain"
       => /\ mgrLast.err = NoError
          /\ mgrLast.client # NilPtr
          /\ mgrLast.client[1] \in DOMAIN mgrCfg.Chains
          /\ mgrCfg.Chains[mgrLast.client[1]]

\* With a disabled chain configured and no default named, the registry was built
\* and GetChain refused the disabled chain.
C14_Witness ==
    /\ mgrPc = "up"
    /\ mgrCfg.Default = EmptyStr
    /\ mgrLast.op = "GetChain"
    /\ mgrLast.id \in DOMAIN mgrCfg.Chains
    /\ ~mgrCfg.Chains[mgrLast.id]
    /\ mgrLast.err = NewChainError

\* C15: the map HealthCheckAll returns has exactly one entry per chain of the
\* registry, nil exactly when that chain's GetInfo succeeded; every goroutine writes
\* its entry once, under the mutex, whatever the interleaving; and HealthCheckAll
\* returns once the deadline has passed, even if some nodes never answer.
C15_HealthCheckAll ==
    /\ [](readyPc \in {"waiting", "answered"}
          => /\ DOMAIN hcResults = {id \in DOMAIN hcPc : hcPc[id] = "done"}
             /\ \A id \in DOMAIN hcPc :
                    /\ hcWrites[id] = (IF hcPc[id] = "done" THEN 1 ELSE 0)
                    /\ hcPc[id] = "write" <=> hcMu = Ptr(id)
             /\ \A id \in DOMAIN hcResults :
                    hcResults[id] = (IF hcInfoOk[id] THEN NoError ELSE NewChainError))
    /\ [](readyPc = "answered"
          => /\ DOMAIN hcResults = manager[1].chains
             /\ DOMAIN hcResults = {id \in DOMAIN mgrCfg.Chains : mgrCfg.Chains[id]})
    /\ (readyPc = "waiting" /\ hcCtxDone) ~> (readyPc = "answered")
    /\ (readyPc = "waiting") ~> (readyPc = "answered")

\* HealthCheckAll returned for three chains: one healthy, one failing, one silent
\* until the deadline.
C15_Witness ==
    /\ readyPc = "answered"
    /\ hcCtxDone
    /\ \E a, b, c \in DOMAIN hcResults :
        /\ hcNode[a] = "ok" /\ hcResults[a] = NoError
        /\ hcNode[b] = "fail" /\ hcResults[b] = NewChainError
        /\ hcNode[c] = "silent" /\ hcResults[c] = NewChainError

\* C16: /ready answers 200 exactly when at least one chain's health check
\* succeeded; otherwise it answers 503 with an error entry for every chain of the
\* registry.
C16_Readiness ==
    readyPc = "answered"
    => /\ readyResp[1].status = 200 <=> \E id \in manager[1].chains : hcInfoOk[id]
       /\ readyResp[1].status # 200
          => /\ readyResp[1].status = 503
             /\ DOMAIN readyResp[1].chains = manager[1].chains
             /\ \A id \in manager[1].chains : readyResp[1].chains[id] = "CHAIN_ERROR"

\* /ready answered 200 although one chain's health check failed.
C16_Witness ==
    /\ readyPc = "answered"
    /\ readyResp[1].status = 200
    /\ \E id \in manager[1].chains : ~hcInfoOk[id]

----------------------------------------------------------------------------
(* Claims about the file response *)
\* C17: every 200 file response carries an ETag that is the quoted transaction id
\* of the request, whether the file came from the node or from the cache.
C17_ETag ==
    (svcLast.served /\ svcLast.resp[1].status = 200)
    => /\ "ETag" \in DOMAIN svcLast.resp[1].headers
       /\ svcLast.resp[1].headers["ETag"] = Quote \o svcLast.req.TXID \o Quote

\* C18: a 200 file response carries X-Cache-Status, MISS when the file was fetched
\* from the node and HIT when it was served from the cache.
C18_CacheStatus ==
    (svcLast.served /\ svcLast.resp[1].status = 200)
    => /\ "X-Cache-Status" \in DOMAIN svcLast.resp[1].headers
       /\ svcLast.resp[1].headers["X-Cache-Status"]
            = (IF InTrace("node.rpc", svcLast.trace) THEN "MISS" ELSE "HIT")

----------------------------------------------------------------------------
(* Claims about the middleware stack *)
\* C19: with the server's middleware order, a panic in a handler yields a 500
\* response whose error code is INTERNAL_ERROR and whose request_id equals the
\* X-Request-ID response header.
C19_PanicRecovery ==
    (httpPc = "done" /\ httpHandler \in {"panic", "panic after write"})
    => /\ httpResp.status = 500
       /\ Len(httpResp.body) = 1
       /\ httpResp.body[1].error = "INTERNAL_ERROR"
       /\ "X-Request-ID" \in DOMAIN httpResp.headers
       /\ httpResp.body[1].request_id = httpResp.headers["X-Request-ID"]

----------------------------------------------------------------------------
(* Claims about the process *)
LogBefore(a, b) ==
    \A i, j \in 1..Len(procLog) : (procLog[i] = a /\ procLog[j] = b) => i < j

LogCount(a) == Cardinality({i \in 1..Len(procLog) : procLog[i] = a})

Signalled == \E i \in 1..Len(procLog) : procLog[i] \in {"SIGINT", "SIGTERM"}

\* C20: once SIGINT or SIGTERM has been delivered the process eventually exits, and
\* when it has exited the HTTP server's shutdown was initiated first, then every
\* client of the registry was closed, then the cache (when one is configured) was
\* closed, in that order.
C20_ShutdownSequence ==
    /\ sigDone ~> (procPc = "exited")
    /\ []((procPc = "exited" /\ Signalled)
          => /\ LogCount("http shutdown") = 1
             /\ LogCount("client closed") = Cardinality(procCfg.chains)
             /\ clientsOpen = {}
             /\ LogCount("cache closed") = (IF procCfg.cache = "none" THEN 0 ELSE 1)
             /\ cacheState \in {"none", "closed"}
             /\ cleanupPc \in {"none", "exited"}
             /\ LogBefore("http shutdown", "client closed")
             /\ LogBefore("client closed", "cache closed")
             /\ LogBefore("http shutdown", "cache closed")
             /\ LogBefore("cache closed", "exit"))
    /\ []((procPc \in {"close clients", "close cache", "wait cleanup", "exiting"})
          => LogCount("http shutdown") = 1)
    /\ []((cacheState \in {"closing", "closed"}) => clientsOpen = {})

\* After SIGTERM, with a request that was never answered and a filesystem cache,
\* the process has exited with two clients and the cache closed.
C20_Witness ==
    /\ procPc = "exited"
    /\ procLog[1] = "SIGTERM"
    /\ srvInflight > 0
    /\ procCfg.cache = "filesystem"
    /\ Cardinality(procCfg.chains) = 2
    /\ cleanupRuns > 0

----------------------------------------------------------------------------
(* Claims about startup and the exit status *)
Fatals == {i \in 1..Len(procLog) : procLog[i] \in {"fatal: configuration", "fatal: logger",
                                                   "fatal: cache", "fatal: chain manager"}}

\* C21: the process exits with a non-zero status whenever initialisation fails,
\* the failure of the HTTP listener to bind included, and with 0 only after a
\* shutdown of a server that had been listening.
C21_ExitStatus ==
    procPc = "exited"
    => /\ (Fatals # {} \/ srvState = "failed") => procExit # 0
       /\ procExit = 0 => (Fatals = {} /\ srvState # "failed"
                           /\ LogCount("http shutdown") = 1)

\* C22: a configuration with cache.type = none, valid otherwise, is accepted at
\* startup, and the gateway then runs with no cache.
C22_CacheNoneAccepted ==
    (/\ startCfg.CacheType = "none"
     /\ ConfigValidate([startCfg EXCEPT !.CacheType = "filesystem"]) = "nil"
     /\ procPc # "load")
    => /\ LogCount("fatal: configuration") = 0
       /\ procPc \notin {"logger", "cache", "exited"} => procCfg.cache = "none"


----------------------------------------------------------------------------
(* C23: Delete on the local-fs cache *)

\* The entry files of key k in cache c: its .bin and its .meta file.
EntryOf(c, k) == <<Lookup(c.bin, k), Lookup(c.meta, k)>>

\* C23: a Delete of the local-fs cache under a live context returns no error; on an
\* absent key it leaves every entry and the size and items counters as they were; on
\* a present key it removes that entry, so that the next Get of it is a miss, lowers
\* size by the entry's content length and items by one, and leaves every other
\* entry as it was.  Under a cancelled context it returns the context's error and
\* changes nothing.
C23_Delete ==
    [][(cacheCfg.type = "filesystem" /\ cacheOps' # cacheOps /\ cacheLast'.op = "Delete")
        => LET k == cacheLast'.key
           IN  /\ cacheLast'.err \in {"nil", "ctx"}
               /\ cacheLast'.err = "ctx" => cache' = cache
               /\ \A other \in CacheKeySet \ {k} :
                      EntryOf(cache', other) = EntryOf(cache, other)
               /\ (cacheLast'.err = "nil" /\ k \notin DOMAIN cache.bin)
                      => /\ EntryOf(cache', k) = EntryOf(cache, k)
                         /\ cache'.size = cache.size
                         /\ cache'.items = cache.items
               /\ (cacheLast'.err = "nil" /\ k \in DOMAIN cache.bin)
                      => /\ EntryOf(cache', k) = <<NilPtr, NilPtr>>
                         /\ FsGet(cache', k, now', cacheCfg.ttl, FALSE).err = "miss"
                         /\ cache'.size = cache.size - Len(cache.bin[k].content)
                         /\ cache'.items = cache.items - 1]_vars

\* A Delete has removed one of two stored entries; the other one is still stored.
C23_Witness ==
    /\ cacheCfg.type = "filesystem"
    /\ cacheLast.op = "Delete"
    /\ cacheLast.err = "nil"
    /\ cacheLast.prev # NilPtr
    /\ cacheLast.key \notin DOMAIN cache.bin
    /\ DOMAIN cache.bin # {}


----------------------------------------------------------------------------
(* C24: the per-IP rate limit *)

\* The requests of ip admitted at a time in [from, from + window).
AdmittedIn(ip, from) ==
    {i \in 1..Len(rlLog) : /\ rlLog[i].ip = ip
                           /\ rlLog[i].admitted
                           /\ from <= rlLog[i].at
                           /\ rlLog[i].at < from + rlCfg.window}

\* C24: in every time interval of length window at most RequestsPerWindow requests
\* of one client IP are admitted, and every request that is not admitted is
\* answered 429.
C24_RateLimit ==
    /\ \A ip \in ClientIPs, from \in 0..MaxRlTime :
           Cardinality(AdmittedIn(ip, from)) <= rlCfg.rate
    /\ \A i \in 1..Len(rlLog) :
           ~rlLog[i].admitted => rlLog[i].status = StatusTooManyRequests


----------------------------------------------------------------------------
(* C25: retries disabled *)

\* C25: a client configured with MaxRetries = 0 makes exactly one attempt per Call,
\* also when that attempt fails with a retryable error.
C25_RetriesDisabled ==
    rpcCfg.MaxRetries = 0
    => /\ Len(rpcResponses) <= 1
       /\ (rpcPc = "done" /\ ~rpcCtxDone) => Len(rpcResponses) = 1


----------------------------------------------------------------------------
(* C26: the counters of the local-fs cache *)

\* C26: after any sequence of Set, Get, Delete, Clear, evictions and sweeps the
\* items counter of the local-fs cache is the number of stored entries and its
\* size counter is the sum of their content lengths.
C26_CounterConsistency ==
    cacheCfg.type = "filesystem"
    => /\ cache.items = Cardinality(DOMAIN cache.bin)
       /\ cache.size = StoredBytes


----------------------------------------------------------------------------
(* C27: Set twice *)

\* The step is a successful Set of the local-fs cache that repeats the successful
\* Set made right before it: the same key and the same file.
RepeatsSet ==
    /\ cacheCfg.type = "filesystem"
    /\ cacheOps' # cacheOps
    /\ cacheLast.op = "Set" /\ cacheLast.err = "nil"
    /\ cacheLast'.op = "Set" /\ cacheLast'.err = "nil"
    /\ cacheLast'.key = cacheLast.key
    /\ cacheLast'.arg = cacheLast.arg

\* C27: a Set(k, f) that repeats the Set(k, f) before it leaves the cache as the
\* first one left it: one entry for k holding f, the other entries, and the size
\* and items counters are the same.
C27_IdempotentOverwrite ==
    [][RepeatsSet
        => /\ DOMAIN cache'.bin = DOMAIN cache.bin
           /\ \A k \in DOMAIN cache.bin :
                  cache'.bin[k].content = cache.bin[k].content
           /\ cache'.meta = cache.meta
           /\ cache'.size = cache.size
           /\ cache'.items = cache.items]_vars


----------------------------------------------------------------------------
(* C28: eviction *)

RECURSIVE EvictUntilFits(_, _, _, _, _)
\* Eviction as C28 words it: the files are removed in the given order for as long
\* as the new content does not fit.
EvictUntilFits(c, files, idx, fileSize, maxSize) ==
    IF idx > Len(files) \/ c.size + fileSize <= maxSize THEN c
    ELSE EvictUntilFits([c EXCEPT !.bin = Drop(@, files[idx].key),
                                  !.meta = Drop(@, files[idx].key),
                                  !.size = @ - files[idx].size,
                                  !.items = @ - 1],
                        files, idx + 1, fileSize, maxSize)

\* The step is a successful Set of the local-fs cache that has to evict.
SetEvicts ==
    /\ cacheCfg.type = "filesystem"
    /\ cacheOps' # cacheOps
    /\ cacheLast'.op = "Set" /\ cacheLast'.err = "nil"
    /\ cache.size + Len(cacheLast'.arg[1].Content) > cacheCfg.maxSize

\* C28: a Set that must evict removes entries oldest-first by their last write time
\* (every removed entry was written no later than every entry that stays) and stops
\* as soon as the new content fits: no entry is removed once
\* size + len(content) <= maxSize holds.
C28_Eviction ==
    [][SetEvicts
        => LET k == cacheLast'.key
               fileSize == Len(cacheLast'.arg[1].Content)
               oldestFirst == BubbleOuter(WalkFiles(cache, cacheCfg.walk), 0)
               kept == EvictUntilFits(cache, oldestFirst, 1, fileSize, cacheCfg.maxSize)
           IN  /\ \A x \in (DOMAIN cache.bin) \ (DOMAIN cache'.bin) :
                      \A y \in (DOMAIN cache'.bin) \ {k} :
                          cache.bin[x].mtime <= cache.bin[y].mtime
               /\ (DOMAIN cache'.bin) \ {k} = (DOMAIN kept.bin) \ {k}
               /\ cache'.size = kept.size + fileSize]_vars


----------------------------------------------------------------------------
(* C29: the lock discipline of the local-fs cache *)

\* A complete hit carries the content and the metadata of one entry.
CompleteHit(r) == r.kind = "hit" /\ r.content # "" /\ r.meta = r.content

\* C29: every step that creates, overwrites or removes entry files is made by a
\* goroutine holding the cache's exclusive lock, and every Get returns a complete
\* hit or Miss, however the goroutines interleave.
C29_LockDiscipline ==
    [][/\ lkFiles' # lkFiles => mu.writer # "none"
       /\ \A g \in Getters :
              gPc'[g] = "done" => (gRes'[g].kind = "miss" \/ CompleteHit(gRes'[g]))]_vars


----------------------------------------------------------------------------
(* C30: the sweeper *)

\* The stored entries whose age exceeds the ttl.
ExpiredKeys ==
    {k \in DOMAIN cache.bin : now - cache.bin[k].mtime > cacheCfg.ttl}

\* The step is a sweep of the cleanup goroutine.
SweepStep == cleanupRuns' # cleanupRuns

\* C30: each sweep removes exactly the entries whose age exceeds the ttl, lowers size
\* by their content lengths and items by their number, and leaves every other entry
\* as it was; a Close that has been called returns; and once Close has returned no
\* sweep runs.
C30_Sweeper ==
    /\ [][SweepStep
            => /\ DOMAIN cache'.bin = (DOMAIN cache.bin) \ ExpiredKeys
               /\ \A k \in ExpiredKeys : EntryOf(cache', k) = <<NilPtr, NilPtr>>
               /\ \A k \in CacheKeySet \ ExpiredKeys :
                      EntryOf(cache', k) = EntryOf(cache, k)
               /\ cache'.size = cache.size - SumSizes(cache.bin, ExpiredKeys)
               /\ cache'.items = cache.items - Cardinality(ExpiredKeys)]_vars
    /\ (cacheState = "closing") ~> (cacheState = "closed")
    /\ [][cacheState = "closed" => ~SweepStep /\ cleanupPc' = "exited"]_vars

\* The cache is closed and the sweeper has, before that, removed an expired entry
\* and left an unexpired one.
C30_Witness ==
    /\ cacheState = "closed"
    /\ cleanupRuns > 0
    /\ cacheLast.op = "cleanup"
    /\ cache.items = 1
    /\ Cardinality(DOMAIN cache.bin) = 1
    /\ cache.misses = 0


----------------------------------------------------------------------------
(* C31: the backoff between the attempts of a Call *)

\* The step is one in which Call finds its context cancelled: in the wait before
\* a retry, or after a failed attempt.
FindsCancelled ==
    /\ rpcCtxDone
    /\ \/ rpcPc = "wait" /\ rpcPc' # "wait"
       \/ rpcPc = "check" /\ rpcPc' # "check" /\ rpcErr # NilErr

----------------------------------------------------------------------------
(* C32: the client's statistics under concurrent Calls *)

\* Attempts started and attempts failed so far, over all callers.
TotalStarted == attemptsStarted["call1"] + attemptsStarted["call2"]
TotalFailed == attemptsFailed["call1"] + attemptsFailed["call2"]
Running == {g \in Callers : attemptPc[g] = "running"}

\* In every state the counters are right: requestCount is the number of attempts
\* started, errorCount the number of attempts that failed.
CountersExact ==
    /\ requestCount = TotalStarted
    /\ errorCount = TotalFailed
    /\ errorCount + Cardinality(Running) <= requestCount

\* C32 as worded, for the values Stats returns: Requests and Errors are the attempts
\* started and failed, hence Errors <= Requests, under any interleaving.
C32_StatsConsistent ==
    /\ CountersExact
    /\ statsPc = "done" => stats.Errors <= stats.Requests

\* C32, amended: in every state requestCount is the number of attempts started and
\* errorCount the number of attempts that failed, each failed attempt counted once,
\* hence errorCount <= requestCount; Stats returns the two counters as it read them
\* one after the other, and its Errors <= Requests when no attempt started between
\* the two reads.
C32_Counters ==
    /\ [](CountersExact
          /\ stats.Requests <= requestCount
          /\ stats.Errors <= errorCount)
    /\ [][(statsPc = "loaded" /\ statsPc' = "done" /\ stats.Requests = requestCount)
            => stats'.Errors <= stats'.Requests]_vars

\* Stats has returned while both callers had failed attempts behind them.
C32_Witness ==
    /\ statsPc = "done"
    /\ stats.Errors > 0
    /\ stats.Requests >= stats.Errors
    /\ attemptsFailed["call1"] > 0
    /\ attemptsFailed["call2"] > 0
    /\ TotalStarted > TotalFailed


\* C33: the buffer of decompressGzip never holds more than maxSize bytes, and
\* decompressGzip ends with the size-limit error exactly when the decompressed
\* stream is longer than maxSize; a stream of exactly maxSize bytes succeeds.
C33_SizeLimit ==
    /\ Len(dzOut) <= dzMaxSize
    /\ dzPc = "done" =>
          /\ dzErr = ErrSizeLimit <=> Len(dzStream.bytes) > dzMaxSize
          /\ (Len(dzStream.bytes) = dzMaxSize /\ ~dzStream.corrupt) => dzErr = "nil"


----------------------------------------------------------------------------
(* Claims about GetFile and the errors of the cache *)

\* The latest GetFile asked the cache and got Miss or another error.
CacheFailed == svcLast.served /\ svcLast.cacheErr \in {"miss", "error", "ctx"}

\* The node answered the latest GetFile with a payload that decodes.
NodeDelivered ==
    /\ svcLast.nodeHex # NilPtr
    /\ DecodeString(svcLast.nodeHex[1]).ok
    /\ Len(DecodeString(svcLast.nodeHex[1]).data) > 0

\* The content GetFile derives from the payload the node delivered.
NodeContent ==
    IF Decompress(RawPayload, DecompressMaxSize).ok
        THEN Decompress(RawPayload, DecompressMaxSize).data
        ELSE RawPayload

\* C34: when cache.Get returns Miss or any other error, GetFile goes on to the
\* registry and, the chain resolved and the viewing key passed by the decryptor, to
\* the node; when the node delivers, GetFile returns no error and the
\* file derived from the node's payload; the error GetFile returns, if any, is one
\* of the registry's or the node's, never the cache's.
C34_CacheErrorsNeverFail ==
    CacheFailed
    => /\ svcLast.trace[1] = "cache.Get"
       /\ InTrace("registry", svcLast.trace)
       /\ (getClient(registry, svcLast.req.ChainID) = NoError /\ reEVK(svcLast.req.EVK))
            => InTrace("node.rpc", svcLast.trace)
       /\ svcLast.err \in {NoError, NewRPCError, NewDecryptionError, NewChainError,
                           NewInvalidInputError}
       /\ svcLast.err # NoError => ~NodeDelivered \/ svcLast.ctxDone
       /\ NodeDelivered
            => /\ svcLast.err = NoError
               /\ svcLast.file # NilPtr
               /\ svcLast.file[1].TXID = svcLast.req.TXID
               /\ svcLast.file[1].Content = NodeContent
               /\ svcLast.file[1].Metadata
                      = Ptr(DetectType(NodeContent, svcLast.req.Filename))

\* A GetFile whose cache.Get failed on an unreadable entry, under a live context,
\* returned the file of the node.
C34_Witness ==
    /\ svcLast.served
    /\ svcLast.cacheErr = "error"
    /\ ~svcLast.ctxDone
    /\ NodeDelivered
    /\ svcLast.err = NoError
    /\ svcLast.file[1].Content = NodeContent


----------------------------------------------------------------------------
(* Claims about the end of the shutdown *)

\* C35: when httpServer.Shutdown has returned with every request answered before
\* the shutdown deadline, main leaves its wait on the shutdown context without the
\* deadline having passed, and logs that the server stopped gracefully, not that
\* the timeout was exceeded.
C35_GracefulCompletion ==
    (shutDrained /\ shutReport # "")
    => /\ ~shutCtxDone
       /\ shutReport = MsgGraceful


----------------------------------------------------------------------------
(* Claims about responses served from the cache *)

\* The latest GetFile was answered from the cache.
ServedFromCache == svcLast.served /\ svcLast.cacheErr = "nil"

\* The response to req without a cache, the node delivering content: the File of
\* GetFile, lines 76-88, written by the handler.
FreshResponse(req, content) ==
    FileResponse(req,
                 Ptr(MkFile(req.TXID, req.ChainID, content,
                            Ptr(DetectType(content, req.Filename)), 0)),
                 NoError)

HeaderOf(resp, name) ==
    IF name \in DOMAIN resp.headers THEN Ptr(resp.headers[name]) ELSE NilPtr

\* C36: a response served from the cache equals, in status, body, Content-Type and
\* Content-Disposition, the response the gateway gives the same request without a
\* cache when the node delivers the same content; a hit on an entry stored by a
\* request with another filename, or none, answers with the filename of the
\* current request.
C36_CacheTransparency ==
    (ServedFromCache /\ NodeAccepts(svcLast.req.EVK))
    => LET hit == svcLast.resp[1]
           fresh == FreshResponse(svcLast.req, svcLast.file[1].Content)
       IN  /\ hit.status = fresh.status
           /\ hit.body = fresh.body
           /\ HeaderOf(hit, "Content-Type") = HeaderOf(fresh, "Content-Type")
           /\ HeaderOf(hit, "Content-Disposition") = HeaderOf(fresh, "Content-Disposition")


\* The latest GetFile returned a file.
ObtainedContent == svcLast.served /\ svcLast.err = NoError /\ svcLast.file # NilPtr

\* C37: GetFile returns content for (chain, txid) only to a request whose own
\* viewing key the node accepted for that txid; a request with another well-formed
\* viewing key never obtains the content an earlier request caused to be cached.
C37_ViewingKeyGate ==
    ObtainedContent => NodeAccepts(svcLast.req.EVK)


----------------------------------------------------------------------------
(* Claims about the two validators of the viewing key *)

\* C38: every viewing key that FileRequest.Validate accepts is accepted by the
\* decryptor's ValidateEVK (reEVK) too, so a request with a viewing key that has
\* passed Validate is not answered INVALID_INPUT by GetFile.
C38_ValidatorAgreement ==
    (svcLast.served /\ svcLast.req.EVK # EmptyStr /\ Validate(svcLast.req) = NoError)
    => /\ reEVK(svcLast.req.EVK)
       /\ svcLast.err # NewInvalidInputError


----------------------------------------------------------------------------
(* Claims about the request deadline *)

\* C39: the timeout of the context that the Timeout middleware installs is the
\* configured server.read_timeout (10 s when absent); it is positive, the
\* multiplication not having overflowed 64 bits; and when the handler begins,
\* the client still there, the context is not expired.
C39_RequestDeadline ==
    /\ tmPc \in {"serving", "wrapped", "handler"}
         => /\ Int64Positive(tmTimeout)
            /\ tmTimeout = tmReadTimeout
    /\ (tmPc = "handler" /\ ~tmParentDone) => tmCtxErr = "nil"

=============================================================================
